---- MODULE Spec2Model ----
(***************************************************************************)
(* A state-machine model of the arena simulation of "Neon Tethers"         *)
(* (src/src/scenes/ArenaScene.ts) and of its currency ledger               *)
(* (src/unnamed/part_001, the module imported as ../state/currency).       *)
(*                                                                         *)
(* Conventions                                                             *)
(*  - A scene is a record S of the ArenaScene fields plus the ledger; each  *)
(*    method of the source is an operator from a scene to a scene, so that *)
(*    the order of the statements of a handler is the nesting of the LETs. *)
(*    An action commits the scene a handler returns.                       *)
(*  - Times are milliseconds of Phaser's clock (this.time.now).            *)
(*  - Speed multipliers are hundredths (1.5 is 150, += 0.1 is + 10).       *)
(*  - An absent optional value is a record or number of the same shape     *)
(*    (NoEffect, NoHook, NoTimer), since TLC compares like with like.      *)
(***************************************************************************)
EXTENDS Integers, Sequences, FiniteSets, TLC

\* ------------------------------------------------------------------------
\* Program constants (ArenaScene.ts, top of file)
\* ------------------------------------------------------------------------
HOOK_RANGE == 280
HOOK_DURATION == 320
HOOK_BREAK_DISTANCE == 56
HOOK_COOLDOWN == 1800
MAX_HOOK_CHARGES == 3
MAX_SPAWN_ATTEMPTS == 30
ROPE_PICKUP_LIMIT == 1
SKULL_PICKUP_LIMIT == 2
ARENA_WIDTH == 800
ARENA_HEIGHT == 600
PLAYER_RADIUS == 18
CLOAK_DURATION == 4500
DISRUPT_DURATION == 3500
TAG_COOLDOWN == 900
RESTART_DELAY == 800
BEHAVIOR_DURATION == 3500
BOOST_MULTIPLIER == 150
SLOW_MULTIPLIER == 60
DISRUPT_MULTIPLIER == 55
AFTERBURNER_STEP == 10
BASE_MULTIPLIER == 100
PLAYER_SPEED == 260
DASH_SPEED == 500
DASH_COOLDOWN == 800
DASH_DURATION == 180
HOOK_PULL_STRENGTH == 140
HOOK_PULL_DECAY == 70
SHOOTER_RECOIL_FACTOR == 82
SHOOT_RECOIL_DAMPENING == 90
POWER_RESPAWN_DELAY == 10000
ROPE_RESPAWN_DELAY == 12000
TELEPORT_PICKUP_LIMIT == 2
TELEPORT_RESPAWN_DELAY == 9000
SKULL_RESPAWN_DELAY == 11000
POWER_PICKUP_LIMIT == 2
GLUE_DURATION == 6000
GLUE_MULTIPLIER == 45
CHASER_SPEED == 112
COLLECTOR_SPEED == 96

\* ------------------------------------------------------------------------
\* Bounds of the model
\* ------------------------------------------------------------------------
\* Rounds (calls of create) explored in one behaviour.
MaxRounds == 2
\* Last clock value explored.
MaxNow == 15000
\* Scoring overlaps explored after a round has been decided, per round.
MaxLate == 1
\* Last clock value explored where hooks are fired.
MaxHookNow == 7200
\* Last clock value explored where timed effects run.
MaxFxNow == 6000
\* Regions in the arena while placement is explored, the two players included.
MaxRegions == 4
\* Rounds explored where the mode is changed between rounds.
MaxRoleRounds == 4
\* Largest totalEarned explored where the ledger is called directly.
MaxEarned == 4
\* Last clock value explored where the keys of both players are read.
MaxInputNow == 1900
\* Last clock value explored where surface zones are walked over.
MaxSurfaceNow == 8000
\* The clock of SpecTag stops here.
MaxTagNow == 2700
\* The clock of SpecBreak stops here.
MaxBreakNow == 2280
\* The clock of SpecShoot stops here.
MaxShootNow == 900
\* The clock of SpecDash stops here.
MaxDashNow == 1800
\* The clock of SpecPickups stops here.
MaxPickupNow == 24000
MaxOverlapSteps == 3

\* The two bound players, in binding order (getPlayerBindings).
PlayerOrder == <<"p1", "p2">>
PlayerIds == {"p1", "p2"}

NoTimer == -1
NoEffect == [type |-> "none", expires |-> 0, duration |-> 0, aura |-> FALSE]
NoHook == [target |-> "none", expires |-> 0]
NoApplied == [type |-> "none", expires |-> 0, before |-> 0]
NoWin == [winner |-> "none", reason |-> "none", round |-> 0, late |-> 0]
NoFrame == [keys |-> {}, distance |-> 0]
NoTouch == [player |-> "none", kind |-> "none", effect |-> "none"]
NoCall == [op |-> "none", player |-> "none", upgrade |-> "none", ok |-> FALSE]
NoAudit == [call |-> NoCall, spent |-> [id \in PlayerIds |-> 0],
            bought |-> [id \in PlayerIds |-> <<>>]]
\* The pickup groups of the scene that are counted in pickups.
PickupGroups == {"energy", "rareEnergy", "hazards", "behaviorPickups",
                 "ropePickups", "teleportPickups", "skullPickups"}
NoStep == [group |-> "none", who |-> {}, takers |-> {}, n |-> 0]
NoActs == [shots |-> 0, dashes |-> 0]
NoTags == [count |-> 0, last |-> NoTimer, refused |-> FALSE]
NoSurface == [name |-> "none", at |-> 0, n |-> 0]
NoInput == [event |-> "none", player |-> "none", late |-> FALSE,
            keys |-> [id \in PlayerIds |-> {}],
            over |-> [id \in PlayerIds |-> {}]]

Max(a, b) == IF a >= b THEN a ELSE b
Min(a, b) == IF a <= b THEN a ELSE b
Clamp(v, lo, hi) == Max(lo, Min(hi, v))

\* The other player: this.players.find((p) => p.id !== player.id).
Opponent(p) == CHOOSE q \in PlayerIds : q # p

\* ------------------------------------------------------------------------
\* Currency ledger (src/unnamed/part_001)
\* ------------------------------------------------------------------------
UpgradeIds == {"afterburner", "reserve-core", "hook-stock"}

UPGRADE_CATALOG ==
  [u \in UpgradeIds |->
     CASE u = "afterburner" -> 3
       [] u = "reserve-core" -> 2
       [] u = "hook-stock" -> 2]

EmptyEntry == [balance |-> 0, totalEarned |-> 0, recentEarnings |-> 0, queuedUpgrades |-> <<>>]

awardCurrency(bal, playerId, amount) ==
  [bal EXCEPT ![playerId] =
     [@ EXCEPT !.balance = @ + amount,
               !.totalEarned = @ + amount,
               !.recentEarnings = amount]]

\* The value spendCurrency returns.
spendCurrencyResult(bal, playerId, upgradeId) ==
  ~(upgradeId \notin UpgradeIds \/ bal[playerId].balance < UPGRADE_CATALOG[upgradeId])

\* Variant: recentEarnings is cleared before the checks.
spendCurrencyClearsFirst(bal, playerId, upgradeId) ==
  LET b0 == [bal EXCEPT ![playerId].recentEarnings = 0]
  IN IF upgradeId \notin UpgradeIds \/ bal[playerId].balance < UPGRADE_CATALOG[upgradeId]
     THEN b0
     ELSE [b0 EXCEPT ![playerId] =
             [@ EXCEPT !.balance = @ - UPGRADE_CATALOG[upgradeId],
                       !.queuedUpgrades = Append(@, upgradeId)]]

\* Variant: the balance is not compared with the cost.
spendCurrencyOnCredit(bal, playerId, upgradeId) ==
  IF upgradeId \notin UpgradeIds
  THEN bal
  ELSE [bal EXCEPT ![playerId] =
          [@ EXCEPT !.balance = @ - UPGRADE_CATALOG[upgradeId],
                    !.recentEarnings = 0,
                    !.queuedUpgrades = Append(@, upgradeId)]]

\* The ledger after the call; the call returns TRUE exactly when it changed.
spendCurrency(bal, playerId, upgradeId) ==
  IF upgradeId \notin UpgradeIds \/ bal[playerId].balance < UPGRADE_CATALOG[upgradeId]
  THEN bal
  ELSE [bal EXCEPT ![playerId] =
          [@ EXCEPT !.balance = @ - UPGRADE_CATALOG[upgradeId],
                    !.recentEarnings = 0,
                    !.queuedUpgrades = Append(@, upgradeId)]]

\* Variant: the queue is returned and kept.
pullQueuedUpgradesKeeps(bal, playerId) == bal

\* pullQueuedUpgrades returns bal[playerId].queuedUpgrades and leaves this.
pullQueuedUpgrades(bal, playerId) ==
  [bal EXCEPT ![playerId].queuedUpgrades = <<>>]

resetRecentEarnings(bal) ==
  [p \in DOMAIN bal |-> [bal[p] EXCEPT !.recentEarnings = 0]]


\* ------------------------------------------------------------------------
\* Settings (read once per round by create: getActiveSettings)
\* ------------------------------------------------------------------------
Modes == {"classic", "minefield", "pursuit", "shooting"}

\* The values the settings screen allows (SettingsScene.ts steppers), of
\* which the model explores the ones below.
WinningScores == {5}
Thresholds == {-3, -2}
ChaserTagGoals == {1, 2}
ModeTimerSeconds == {0, 15}
ShootingHealths == {2}
ProjectileDamages == {1, 3}

MkSettings(m, th, goal, secs, dmg) ==
  [mode |-> m,
   winningScore |-> CHOOSE w \in WinningScores : TRUE,
   negativeLossThreshold |-> th,
   chaserTagGoal |-> goal,
   modeTimerSeconds |-> secs,
   shootingHealth |-> CHOOSE h \in ShootingHealths : TRUE,
   projectileDamage |-> dmg,
   projectileSpeed |-> 400,
   projectileCooldownMs |-> 300,
   projectileLifetimeMs |-> 1000,
   levelId |-> "open",
   energyCount |-> 6,
   rareEnergyCount |-> 1,
   behaviorPickupCount |-> 2,
   hazardCount |-> 2]

DefaultThreshold == CHOOSE th \in Thresholds : \A o \in Thresholds : th <= o
ShallowThreshold == CHOOSE th \in Thresholds : \A o \in Thresholds : th >= o
DefaultTagGoal == CHOOSE g \in ChaserTagGoals : \A o \in ChaserTagGoals : g >= o
DefaultDamage == CHOOSE d \in ProjectileDamages : \A o \in ProjectileDamages : d <= o

SettingsChoices ==
  {MkSettings("classic", ShallowThreshold, DefaultTagGoal, 0, DefaultDamage)}
  \cup {MkSettings("minefield", DefaultThreshold, DefaultTagGoal, 0, DefaultDamage)}
  \cup {MkSettings("pursuit", DefaultThreshold, 1, 15, DefaultDamage),
        MkSettings("pursuit", DefaultThreshold, 2, 0, DefaultDamage)}
  \cup {MkSettings("shooting", DefaultThreshold, DefaultTagGoal, 0, d) :
      d \in ProjectileDamages}

isPursuitMode(S) == S.settings.mode = "pursuit"
isShootingMode(S) == S.settings.mode = "shooting"

\* ------------------------------------------------------------------------
\* State
\* ------------------------------------------------------------------------
VARIABLES
  settings,            \* this.settings
  players,             \* this.players, by player id
  matchWins,           \* this.matchWins
  roundOver,           \* this.roundOver
  lastChaserId,        \* this.lastChaserId ("none" while undefined)
  tagCooldowns,        \* this.tagCooldowns (0 while unset, as read by ?? 0)
  modeTimer,           \* this.modeTimer: the time it fires, or NoTimer
  modeTimerExpiresAt,  \* this.modeTimerExpiresAt, or NoTimer
  lastRoundEarnings,   \* this.lastRoundEarnings (0 while unset, as read by ?? 0)
  upgradeModal,        \* this.upgradeModal and its acknowledged set
  hookTimers,          \* this.hookTimers (0 while unset)
  activeHooks,         \* this.activeHooks
  tethers,             \* the tether Line objects alive in the scene
  balances,            \* the ledger of the currency module
  now,                 \* this.time.now
  delayedCalls,        \* pending this.time.delayedCall callbacks
  lastWin,             \* the arguments of the last recordWin that took effect
  applied,             \* per player, the timed effect applied last in this round
  frame,               \* the hook keys and player distance of the last frame noted
  touch,               \* the overlap handled last: the player and what was touched
  audit,               \* the ledger call made last, and each player's purchases
  stale,               \* the timers that were pending when the round was set up
  dashState,           \* this.dashState: per player the time the dash ends, or NoTimer
  lastDash,            \* this.lastDash (0 while unset, as read by ?? 0)
  projectileCooldowns, \* this.projectileCooldowns (0 while unset)
  surfaceZones,        \* this.surfaceZones, in the order they were added
  powerPickups,        \* how many power pickups are active in this.powerPickups
  input,               \* the input handled last: a frame's keys and overlaps, or an overlay event
  entered,             \* per player, the overlapped zones in the order they were entered
  tags,                \* the tags registered in this round: how many, and when the last one was
  acts,                \* per player, how many projectiles and dashes were started in this round
  pickups,             \* how many members of each pickup group are active (power: powerPickups)
  step,                \* the physics step handled last: the group, who overlapped the pickup, who was paid
  rounds,              \* how many times create has run
  arena,               \* spawn placement: the occupied regions
  spawn                \* spawn placement: the running spawn routine

sceneVars == <<settings, players, matchWins, roundOver, lastChaserId, tagCooldowns,
               modeTimer, modeTimerExpiresAt, lastRoundEarnings, upgradeModal,
               hookTimers, activeHooks, tethers, balances, now, delayedCalls,
               lastWin, applied, frame, touch, audit, stale,
               dashState, lastDash, projectileCooldowns, surfaceZones,
               powerPickups, input, entered,
               tags,
               acts,
               pickups,
               step,
               rounds>>
spawnVars == <<arena, spawn>>
vars == <<sceneVars, spawnVars>>

Scene ==
  [settings |-> settings, players |-> players, matchWins |-> matchWins,
   roundOver |-> roundOver, lastChaserId |-> lastChaserId,
   tagCooldowns |-> tagCooldowns, modeTimer |-> modeTimer,
   modeTimerExpiresAt |-> modeTimerExpiresAt,
   lastRoundEarnings |-> lastRoundEarnings, upgradeModal |-> upgradeModal,
   hookTimers |-> hookTimers, activeHooks |-> activeHooks, tethers |-> tethers,
   balances |-> balances, now |-> now, delayedCalls |-> delayedCalls,
   lastWin |-> lastWin, applied |-> applied, frame |-> frame, touch |-> touch,
   audit |-> audit, stale |-> stale, dashState |-> dashState,
   lastDash |-> lastDash, projectileCooldowns |-> projectileCooldowns,
   surfaceZones |-> surfaceZones, powerPickups |-> powerPickups,
   input |-> input, entered |-> entered, tags |-> tags,
   acts |-> acts,
   pickups |-> pickups,
   step |-> step,
   rounds |-> rounds]

Commit(S) ==
  /\ settings' = S.settings
  /\ players' = S.players
  /\ matchWins' = S.matchWins
  /\ roundOver' = S.roundOver
  /\ lastChaserId' = S.lastChaserId
  /\ tagCooldowns' = S.tagCooldowns
  /\ modeTimer' = S.modeTimer
  /\ modeTimerExpiresAt' = S.modeTimerExpiresAt
  /\ lastRoundEarnings' = S.lastRoundEarnings
  /\ upgradeModal' = S.upgradeModal
  /\ hookTimers' = S.hookTimers
  /\ activeHooks' = S.activeHooks
  /\ tethers' = S.tethers
  /\ balances' = S.balances
  /\ now' = S.now
  /\ delayedCalls' = S.delayedCalls
  /\ lastWin' = S.lastWin
  /\ applied' = S.applied
  /\ frame' = S.frame
  /\ touch' = S.touch
  /\ audit' = S.audit
  /\ stale' = S.stale
  /\ dashState' = S.dashState
  /\ lastDash' = S.lastDash
  /\ projectileCooldowns' = S.projectileCooldowns
  /\ surfaceZones' = S.surfaceZones
  /\ powerPickups' = S.powerPickups
  /\ input' = S.input
  /\ entered' = S.entered
  /\ tags' = S.tags
  /\ acts' = S.acts
  /\ pickups' = S.pickups
  /\ step' = S.step
  /\ rounds' = S.rounds

\* The same assignment for the initial state.
Start(S) ==
  /\ settings = S.settings
  /\ players = S.players
  /\ matchWins = S.matchWins
  /\ roundOver = S.roundOver
  /\ lastChaserId = S.lastChaserId
  /\ tagCooldowns = S.tagCooldowns
  /\ modeTimer = S.modeTimer
  /\ modeTimerExpiresAt = S.modeTimerExpiresAt
  /\ lastRoundEarnings = S.lastRoundEarnings
  /\ upgradeModal = S.upgradeModal
  /\ hookTimers = S.hookTimers
  /\ activeHooks = S.activeHooks
  /\ tethers = S.tethers
  /\ balances = S.balances
  /\ now = S.now
  /\ delayedCalls = S.delayedCalls
  /\ lastWin = S.lastWin
  /\ applied = S.applied
  /\ frame = S.frame
  /\ touch = S.touch
  /\ audit = S.audit
  /\ stale = S.stale
  /\ dashState = S.dashState
  /\ lastDash = S.lastDash
  /\ projectileCooldowns = S.projectileCooldowns
  /\ surfaceZones = S.surfaceZones
  /\ powerPickups = S.powerPickups
  /\ input = S.input
  /\ entered = S.entered
  /\ tags = S.tags
  /\ acts = S.acts
  /\ pickups = S.pickups
  /\ step = S.step
  /\ rounds = S.rounds

ClosedModal == [open |-> FALSE, acknowledged |-> {}]


\* ------------------------------------------------------------------------
\* Players: construction and queued upgrades
\* ------------------------------------------------------------------------
applyUpgradeEffect(player, upgradeId, shooting) ==
  CASE upgradeId = "afterburner" ->
         [player EXCEPT !.speedMultiplier = @ + AFTERBURNER_STEP]
    [] upgradeId = "reserve-core" ->
         IF shooting
         THEN LET h == Min(player.maxHealth, player.health + 1)
              IN [player EXCEPT !.health = h, !.score = h]
         ELSE [player EXCEPT !.score = @ + 1]
    [] upgradeId = "hook-stock" ->
         LET m == player.maxHookCharges + 1
         IN [player EXCEPT !.maxHookCharges = m,
                           !.hookCharges = Min(m, player.hookCharges + 1)]
    [] OTHER -> player

RECURSIVE applyUpgradeList(_, _, _)
applyUpgradeList(player, queued, shooting) ==
  IF queued = <<>> THEN player
  ELSE applyUpgradeList(applyUpgradeEffect(player, Head(queued), shooting),
                        Tail(queued), shooting)

\* applyQueuedUpgrades: the player with every queued upgrade applied in order
\* (the queue itself is drained by pullQueuedUpgrades, see create).
applyQueuedUpgrades(player, bal, id, shooting) ==
  applyUpgradeList(player, bal[id].queuedUpgrades, shooting)

\* body.velocity is kept as the speed along the player's heading, in
\* ten-thousandths of a pixel per second.
createPlayer(wins, role, roleSpeedMultiplier, maxHookCharges, maxHealth, shooting) ==
  [score |-> IF shooting THEN maxHealth ELSE 0,
   health |-> maxHealth,
   maxHealth |-> maxHealth,
   wins |-> wins,
   role |-> role,
   roleSpeedMultiplier |-> roleSpeedMultiplier,
   speedMultiplier |-> BASE_MULTIPLIER,
   surfaceMultiplier |-> BASE_MULTIPLIER,
   currentSurfaceId |-> NoSurface,
   carriedPower |-> "none",
   velocity |-> 0,
   speedResetTimer |-> NoTimer,
   activeEffect |-> NoEffect,
   cloakVisual |-> FALSE,
   hookCharges |-> maxHookCharges,
   maxHookCharges |-> maxHookCharges]

\* Variant: once a chaser has been recorded no other id is looked for.
chooseChaserIdForgets(last, playerIds) ==
  IF Len(playerIds) = 0 THEN "none"
  ELSE IF last = "none" THEN playerIds[1]
  ELSE "none"

\* Variant: the recorded chaser is chosen again.
chooseChaserIdSticky(last, playerIds) ==
  IF Len(playerIds) = 0 THEN "none"
  ELSE IF last = "none" THEN playerIds[1]
  ELSE last

\* chooseChaserId(playerIds) with this.lastChaserId = last: the id chosen,
\* which is also the new this.lastChaserId.
chooseChaserId(last, playerIds) ==
  IF Len(playerIds) = 0 THEN "none"
  ELSE IF last = "none" THEN playerIds[1]
  ELSE IF \E i \in 1..Len(playerIds) : playerIds[i] # last
       THEN playerIds[CHOOSE i \in 1..Len(playerIds) :
                        /\ playerIds[i] # last
                        /\ \A j \in 1..(i - 1) : playerIds[j] = last]
       ELSE playerIds[1]

\* Variant: three times the configured count, whatever it is.
getHazardTargetCountTripled(s) ==
  IF s.mode = "minefield" THEN s.hazardCount * 3
  ELSE s.hazardCount

getHazardTargetCount(s) ==
  IF s.mode = "minefield" THEN Max(s.hazardCount * 3, s.hazardCount + 4)
  ELSE s.hazardCount

\* Variant: the timer is started whatever modeTimerSeconds is.
startModeTimerAlways(S) ==
  IF ~isPursuitMode(S) THEN S
  ELSE [S EXCEPT !.modeTimerExpiresAt = S.now + S.settings.modeTimerSeconds * 1000,
                 !.modeTimer = S.now + S.settings.modeTimerSeconds * 1000]

startModeTimer(S) ==
  IF ~isPursuitMode(S) \/ S.settings.modeTimerSeconds <= 0 THEN S
  ELSE [S EXCEPT !.modeTimerExpiresAt = S.now + S.settings.modeTimerSeconds * 1000,
                 !.modeTimer = S.now + S.settings.modeTimerSeconds * 1000]

\* ------------------------------------------------------------------------
\* Surface zones
\* ------------------------------------------------------------------------
\* getLevelById, for the two levels the model plays: an open arena, and one
\* with a single named surface zone that is faster than the floor.
getLevelById(levelId) ==
  [surfaces |-> IF levelId = "rink"
                THEN <<[id |-> [name |-> "ice", at |-> 0, n |-> 0], multiplier |-> 130]>>
                ELSE <<>>]

\* addSurfaceZone(surface, lifespan): lifespan 0 stands for an omitted one.
addSurfaceZone(S, surface, lifespan) ==
  [S EXCEPT !.surfaceZones =
     Append(@, [id |-> surface.id, multiplier |-> surface.multiplier,
                expiresAt |-> IF lifespan # 0 THEN S.now + lifespan ELSE NoTimer])]

RECURSIVE addSurfaces(_, _)
addSurfaces(S, surfaces) ==
  IF surfaces = <<>> THEN S
  ELSE addSurfaces(addSurfaceZone(S, Head(surfaces), 0), Tail(surfaces))

createSurfaces(S, level) == addSurfaces(S, level.surfaces)

clearSurfaceState(player) ==
  [player EXCEPT !.currentSurfaceId = NoSurface,
                 !.surfaceMultiplier = BASE_MULTIPLIER]

\* The zones of zs that intersect the player's bounds are those whose id is
\* in over; the scan runs from the last zone added to the first.
updatePlayerSurface(S, p, over) ==
  LET zs == S.surfaceZones
      hits == {i \in 1..Len(zs) : zs[i].id \in over}
  IN IF hits # {}
     THEN LET overlap == zs[CHOOSE i \in hits : \A j \in hits : j <= i]
          IN IF S.players[p].currentSurfaceId # overlap.id
             THEN [S EXCEPT !.players[p].currentSurfaceId = overlap.id,
                            !.players[p].surfaceMultiplier = overlap.multiplier]
             ELSE S
     ELSE IF S.players[p].currentSurfaceId # NoSurface
       THEN [S EXCEPT !.players[p] = clearSurfaceState(@)]
     ELSE S

Expired(S, zone) == zone.expiresAt # NoTimer /\ zone.expiresAt <= S.now

pruneSurfaceZones(S) ==
  LET gone == {S.surfaceZones[i].id : i \in {j \in 1..Len(S.surfaceZones) :
                                               Expired(S, S.surfaceZones[j])}}
  IN [S EXCEPT
        !.surfaceZones = SelectSeq(@, LAMBDA zone : ~Expired(S, zone)),
        !.players = [p \in PlayerIds |->
                       IF S.players[p].currentSurfaceId \in gone
                       THEN clearSurfaceState(S.players[p]) ELSE S.players[p]]]

\* ------------------------------------------------------------------------
\* Held powers
\* ------------------------------------------------------------------------
grantPower(S, p, power) == [S EXCEPT !.players[p].carriedPower = power]

\* draw: the number Phaser.Math.Between(0, 999) returns for the zone's id.
deployGlueField(S, p, draw) ==
  addSurfaceZone(S, [id |-> [name |-> "glue", at |-> S.now, n |-> draw],
                     multiplier |-> GLUE_MULTIPLIER],
                 GLUE_DURATION)

consumePlayerPower(S, p, draw) ==
  IF S.players[p].carriedPower = "none" THEN S
  ELSE LET S1 == IF S.players[p].carriedPower = "glue"
                 THEN deployGlueField(S, p, draw) ELSE S
       IN [S1 EXCEPT !.players[p].carriedPower = "none"]

\* The listener of the overlay's power event, for the player id of its payload.
overlayPowerHandler(S, playerId, draw) ==
  IF playerId \in PlayerIds THEN consumePlayerPower(S, playerId, draw) ELSE S

\* The power pickup overlap handler, for an active pickup.
powerOverlap(S, p) ==
  IF S.players[p].carriedPower # "none" THEN S
  ELSE [grantPower(S, p, "glue") EXCEPT
          !.powerPickups = @ - 1,
          !.delayedCalls = @ \cup {[kind |-> "powerRespawn", player |-> p,
                                    at |-> S.now + POWER_RESPAWN_DELAY]}]

\* spawnPowerPickups(count), where a position is found for each pickup.
spawnPowerPickups(S, count) ==
  [S EXCEPT !.powerPickups = Min(POWER_PICKUP_LIMIT, @ + count)]

\* ------------------------------------------------------------------------
\* Pickup spawners.  found: for how many of the loop's iterations
\* findSpawnPosition returns a position.
\* ------------------------------------------------------------------------
spawnEnergyOrbs(S, count, found) ==
  [S EXCEPT !.pickups["energy"] = @ + Min(count, found)]

spawnRareEnergy(S, count, found) ==
  [S EXCEPT !.pickups["rareEnergy"] = @ + Min(count, found)]

spawnHazards(S, count, found) ==
  [S EXCEPT !.pickups["hazards"] = @ + Min(count, found)]

spawnBehaviorPickups(S, count, found) ==
  [S EXCEPT !.pickups["behaviorPickups"] = @ + Min(count, found)]

\* The loop of a capped spawner: it breaks once `limit` members are active.
spawnUpTo(live, limit, count, found) ==
  IF live >= limit THEN live ELSE Min(limit, live + Min(count, found))

\* Variant: the loop runs once more than asked and does not look at the cap.
spawnRopePickupsOneMore(S, count, found) ==
  [S EXCEPT !.pickups["ropePickups"] = @ + Min(count + 1, found + 1)]

spawnRopePickups(S, count, found) ==
  [S EXCEPT !.pickups["ropePickups"] = spawnUpTo(@, ROPE_PICKUP_LIMIT, count, found)]

spawnTeleportPickups(S, count, found) ==
  [S EXCEPT !.pickups["teleportPickups"] =
              spawnUpTo(@, TELEPORT_PICKUP_LIMIT, count, found)]

spawnSkullPickups(S, count, found) ==
  [S EXCEPT !.pickups["skullPickups"] = spawnUpTo(@, SKULL_PICKUP_LIMIT, count, found)]

\* The groups create() makes and fills, every position found.
spawnRound(S, s) ==
  LET S0 == [S EXCEPT !.pickups = [g \in PickupGroups |-> 0]]
      S1 == IF s.mode = "shooting" THEN S0
            ELSE spawnSkullPickups(
                   spawnTeleportPickups(
                     spawnRopePickups(
                       spawnBehaviorPickups(
                         spawnRareEnergy(
                           spawnEnergyOrbs(S0, s.energyCount, s.energyCount),
                           s.rareEnergyCount, s.rareEnergyCount),
                         s.behaviorPickupCount, s.behaviorPickupCount),
                       ROPE_PICKUP_LIMIT, ROPE_PICKUP_LIMIT),
                     TELEPORT_PICKUP_LIMIT, TELEPORT_PICKUP_LIMIT),
                   SKULL_PICKUP_LIMIT, SKULL_PICKUP_LIMIT)
  IN spawnHazards(S1, getHazardTargetCount(s), getHazardTargetCount(s))

\* Variant: the delayed calls of the scene's clock are left pending.
createKeepsTimers(S, s) ==
  LET pursuit == s.mode = "pursuit"
      shooting == s.mode = "shooting"
      chaserId == IF pursuit THEN chooseChaserId(S.lastChaserId, PlayerOrder) ELSE "none"
      bal == resetRecentEarnings(S.balances)
      made == [id \in PlayerIds |->
                 LET role == IF pursuit /\ id = chaserId THEN "chaser" ELSE "collector"
                     roleSpeed == IF pursuit
                                  THEN (IF role = "chaser" THEN CHASER_SPEED
                                        ELSE COLLECTOR_SPEED)
                                  ELSE BASE_MULTIPLIER
                     maxHook == IF shooting THEN 0
                                ELSE IF role = "chaser" THEN MAX_HOOK_CHARGES + 1
                                ELSE MAX_HOOK_CHARGES
                 IN applyQueuedUpgrades(
                      createPlayer(S.matchWins[id], role, roleSpeed, maxHook,
                                   s.shootingHealth, shooting),
                      bal, id, shooting)]
      drained == [id \in PlayerIds |-> pullQueuedUpgrades(bal, id)[id]]
      S1 == [S EXCEPT !.settings = s,
                      !.upgradeModal = ClosedModal,
                      !.balances = drained,
                      !.lastRoundEarnings = [id \in PlayerIds |-> 0],
                      !.players = made,
                      !.hookTimers = [id \in PlayerIds |-> 0],
                      !.activeHooks = [id \in PlayerIds |-> NoHook],
                      !.tethers = 0,
                      !.tagCooldowns = [id \in PlayerIds |-> 0],
                      !.roundOver = FALSE,
                      !.modeTimer = NoTimer,
                      !.modeTimerExpiresAt = NoTimer,
                      !.lastWin = NoWin,
                      !.applied = [id \in PlayerIds |-> NoApplied],
                      !.dashState = [id \in PlayerIds |-> NoTimer],
                      !.lastDash = [id \in PlayerIds |-> 0],
                      !.projectileCooldowns = [id \in PlayerIds |-> 0],
                      !.surfaceZones = <<>>,
                      !.powerPickups = IF shooting THEN 0 ELSE POWER_PICKUP_LIMIT,
                      !.entered = [id \in PlayerIds |-> <<>>],
                      !.tags = NoTags,
                      !.acts = [id \in PlayerIds |-> NoActs],
                      !.step = NoStep,
                      !.lastChaserId = IF pursuit THEN chaserId ELSE S.lastChaserId,
                      !.rounds = S.rounds + 1]
  IN startModeTimer(createSurfaces(spawnRound(S1, s), getLevelById(s.levelId)))

\* create(): a round is set up from the settings s that getActiveSettings
\* returns.  Timers of the scene's clock and the scene's game objects do not
\* survive the restart, and the SHUTDOWN handler that precedes every create
\* but the first has destroyed the upgrade modal.
create(S, s) ==
  LET pursuit == s.mode = "pursuit"
      shooting == s.mode = "shooting"
      chaserId == IF pursuit THEN chooseChaserId(S.lastChaserId, PlayerOrder) ELSE "none"
      bal == resetRecentEarnings(S.balances)
      made == [id \in PlayerIds |->
                 LET role == IF pursuit /\ id = chaserId THEN "chaser" ELSE "collector"
                     roleSpeed == IF pursuit
                                  THEN (IF role = "chaser" THEN CHASER_SPEED
                                        ELSE COLLECTOR_SPEED)
                                  ELSE BASE_MULTIPLIER
                     maxHook == IF shooting THEN 0
                                ELSE IF role = "chaser" THEN MAX_HOOK_CHARGES + 1
                                ELSE MAX_HOOK_CHARGES
                 IN applyQueuedUpgrades(
                      createPlayer(S.matchWins[id], role, roleSpeed, maxHook,
                                   s.shootingHealth, shooting),
                      bal, id, shooting)]
      drained == [id \in PlayerIds |-> pullQueuedUpgrades(bal, id)[id]]
      S1 == [S EXCEPT !.settings = s,
                      !.upgradeModal = ClosedModal,
                      !.balances = drained,
                      !.lastRoundEarnings = [id \in PlayerIds |-> 0],
                      !.players = made,
                      !.hookTimers = [id \in PlayerIds |-> 0],
                      !.activeHooks = [id \in PlayerIds |-> NoHook],
                      !.tethers = 0,
                      !.tagCooldowns = [id \in PlayerIds |-> 0],
                      !.roundOver = FALSE,
                      !.modeTimer = NoTimer,
                      !.modeTimerExpiresAt = NoTimer,
                      !.delayedCalls = {},
                      !.lastWin = NoWin,
                      !.applied = [id \in PlayerIds |-> NoApplied],
                      !.dashState = [id \in PlayerIds |-> NoTimer],
                      !.lastDash = [id \in PlayerIds |-> 0],
                      !.projectileCooldowns = [id \in PlayerIds |-> 0],
                      !.surfaceZones = <<>>,
                      !.powerPickups = IF shooting THEN 0 ELSE POWER_PICKUP_LIMIT,
                      !.entered = [id \in PlayerIds |-> <<>>],
                      !.tags = NoTags,
                      !.acts = [id \in PlayerIds |-> NoActs],
                      !.step = NoStep,
                      !.lastChaserId = IF pursuit THEN chaserId ELSE S.lastChaserId,
                      !.rounds = S.rounds + 1]
  IN startModeTimer(createSurfaces(spawnRound(S1, s), getLevelById(s.levelId)))

\* ------------------------------------------------------------------------
\* Round resolution
\* ------------------------------------------------------------------------
\* Math.round(n * 0.5) for an integer n >= 0 (halves round up).
RoundHalf(n) == (n + 1) \div 2

BasePayout(score) == Max(1, RoundHalf(Max(score, 0)))

\* Variant: a tag win pays the same bonus as a score win.
WinBonusTagAsScore(reason) ==
  CASE reason = "tag" -> 2
    [] reason = "score" -> 2
    [] reason = "timer" -> 1
    [] OTHER -> 1

WinBonus(reason) ==
  CASE reason = "tag" -> 3
    [] reason = "score" -> 2
    [] reason = "timer" -> 1
    [] OTHER -> 1

\* Variant: nothing is added to a non-winner's base payout.
PlayerPayoutWinnerOnly(score, isWinner, reason) ==
  LET base == BasePayout(score)
      bonus == IF isWinner THEN WinBonus(reason) ELSE 0
  IN Max(1, base + bonus)

PlayerPayout(score, isWinner, reason) ==
  LET base == BasePayout(score)
      bonus == IF isWinner THEN WinBonus(reason) ELSE 1
  IN Max(1, base + bonus)

RECURSIVE grantEach(_, _, _, _)
grantEach(S, ids, winner, reason) ==
  IF ids = <<>> THEN S
  ELSE LET id == Head(ids)
           total == PlayerPayout(S.players[id].score, id = winner, reason)
       IN grantEach([S EXCEPT !.balances = awardCurrency(S.balances, id, total),
                              !.lastRoundEarnings[id] = total],
                    Tail(ids), winner, reason)

grantRoundCurrency(S, winner, reason) == grantEach(S, PlayerOrder, winner, reason)

launchUpgradeIntermission(S) ==
  IF S.upgradeModal.open
  THEN [S EXCEPT !.delayedCalls =
          @ \cup {[kind |-> "restart", player |-> "none", at |-> S.now + RESTART_DELAY]}]
  ELSE [S EXCEPT !.upgradeModal = [open |-> TRUE, acknowledged |-> {}]]

\* The shooters whose entry of activeHooks holds a tether.
Tethered(S) == {id \in PlayerIds : S.activeHooks[id] # NoHook}

\* Variant: recordWin leaves the tethers as they are.
recordWinKeepsHooks(S, winner, reason) ==
  IF S.roundOver THEN S
  ELSE LET w == S.matchWins[winner] + 1
           S1 == [S EXCEPT !.roundOver = TRUE,
                           !.modeTimer = NoTimer,
                           !.modeTimerExpiresAt = NoTimer,
                           !.matchWins[winner] = w,
                           !.players[winner].wins = w,
                           !.lastWin = [winner |-> winner, reason |-> reason,
                                        round |-> S.rounds, late |-> 0]]
       IN launchUpgradeIntermission(grantRoundCurrency(S1, winner, reason))

\* Variant: recordWin without its roundOver guard.
recordWinUnguarded(S, winner, reason) ==
  LET w == S.matchWins[winner] + 1
      S1 == [S EXCEPT !.roundOver = TRUE,
                      !.modeTimer = NoTimer,
                      !.modeTimerExpiresAt = NoTimer,
                      !.matchWins[winner] = w,
                      !.players[winner].wins = w,
                      !.activeHooks = [id \in PlayerIds |-> NoHook],
                      !.tethers = @ - Cardinality(Tethered(S)),
                      !.lastWin = [winner |-> winner, reason |-> reason,
                                   round |-> S.rounds, late |-> 0]]
  IN launchUpgradeIntermission(grantRoundCurrency(S1, winner, reason))

recordWin(S, winner, reason) ==
  IF S.roundOver THEN S
  ELSE LET w == S.matchWins[winner] + 1
           S1 == [S EXCEPT !.roundOver = TRUE,
                           !.modeTimer = NoTimer,
                           !.modeTimerExpiresAt = NoTimer,
                           !.matchWins[winner] = w,
                           !.players[winner].wins = w,
                           !.activeHooks = [id \in PlayerIds |-> NoHook],
                           !.tethers = @ - Cardinality(Tethered(S)),
                           !.lastWin = [winner |-> winner, reason |-> reason,
                                        round |-> S.rounds, late |-> 0]]
       IN launchUpgradeIntermission(grantRoundCurrency(S1, winner, reason))

\* Variant: the target score has to be exceeded, not reached.
evaluateScoreStrict(S, p) ==
  LET player == S.players[p]
  IN IF S.roundOver THEN S
     ELSE IF isShootingMode(S)
       THEN IF player.health <= 0 THEN recordWin(S, Opponent(p), "score") ELSE S
     ELSE IF isPursuitMode(S)
       THEN IF player.role = "collector" /\ player.score > S.settings.winningScore
              THEN recordWin(S, p, "score")
            ELSE IF player.role = "chaser" /\ player.score >= S.settings.chaserTagGoal
              THEN recordWin(S, p, "tag")
            ELSE IF player.role = "collector"
                    /\ player.score <= S.settings.negativeLossThreshold
                    /\ \E q \in PlayerIds : S.players[q].role = "chaser"
              THEN recordWin(S, CHOOSE q \in PlayerIds : S.players[q].role = "chaser", "debt")
            ELSE S
     ELSE IF player.score > S.settings.winningScore
       THEN recordWin(S, p, "score")
     ELSE IF player.score <= S.settings.negativeLossThreshold
       THEN recordWin(S, Opponent(p), "debt")
     ELSE S

evaluateScore(S, p) ==
  LET player == S.players[p]
  IN IF S.roundOver THEN S
     ELSE IF isShootingMode(S)
       THEN IF player.health <= 0 THEN recordWin(S, Opponent(p), "score") ELSE S
     ELSE IF isPursuitMode(S)
       THEN IF player.role = "collector" /\ player.score >= S.settings.winningScore
              THEN recordWin(S, p, "score")
            ELSE IF player.role = "chaser" /\ player.score >= S.settings.chaserTagGoal
              THEN recordWin(S, p, "tag")
            ELSE IF player.role = "collector"
                    /\ player.score <= S.settings.negativeLossThreshold
                    /\ \E q \in PlayerIds : S.players[q].role = "chaser"
              THEN recordWin(S, CHOOSE q \in PlayerIds : S.players[q].role = "chaser", "debt")
            ELSE S
     ELSE IF player.score >= S.settings.winningScore
       THEN recordWin(S, p, "score")
     ELSE IF player.score <= S.settings.negativeLossThreshold
       THEN recordWin(S, Opponent(p), "debt")
     ELSE S

\* Variant: the health is not clamped at 0.
damageShieldsUnclamped(S, p, amount) ==
  IF ~isShootingMode(S)
  THEN evaluateScore([S EXCEPT !.players[p].score = @ - amount], p)
  ELSE LET h == S.players[p].health - amount
           S1 == [S EXCEPT !.players[p].health = h, !.players[p].score = h]
       IN IF h <= 0 THEN recordWin(S1, Opponent(p), "score") ELSE S1

\* Variant: the win is recorded only below 0.
damageShieldsNoWin(S, p, amount) ==
  IF ~isShootingMode(S)
  THEN evaluateScore([S EXCEPT !.players[p].score = @ - amount], p)
  ELSE LET h == Max(0, S.players[p].health - amount)
           S1 == [S EXCEPT !.players[p].health = h, !.players[p].score = h]
       IN IF h < 0 THEN recordWin(S1, Opponent(p), "score") ELSE S1

damageShields(S, p, amount) ==
  IF ~isShootingMode(S)
  THEN evaluateScore([S EXCEPT !.players[p].score = @ - amount], p)
  ELSE LET h == Max(0, S.players[p].health - amount)
           S1 == [S EXCEPT !.players[p].health = h, !.players[p].score = h]
       IN IF h <= 0 THEN recordWin(S1, Opponent(p), "score") ELSE S1

\* Variant: the tag is counted and the score is not evaluated.
registerTagNoEvaluate(S, chaser, collector) ==
  IF S.roundOver THEN S
  ELSE [S EXCEPT !.players[chaser].score = @ + 1]

registerTag(S, chaser, collector) ==
  IF S.roundOver THEN S
  ELSE evaluateScore([S EXCEPT !.players[chaser].score = @ + 1], chaser)


\* ------------------------------------------------------------------------
\* Timed effects
\* ------------------------------------------------------------------------
isPlayerCloaked(player) == player.activeEffect.type = "cloak"

clearPlayerEffect(player) ==
  [player EXCEPT !.cloakVisual = IF player.activeEffect.type = "cloak" THEN FALSE ELSE @,
                 !.activeEffect = NoEffect]

setPlayerEffect(player, type, duration, showAura, t) ==
  [clearPlayerEffect(player) EXCEPT
     !.activeEffect = [type |-> type, expires |-> t + duration,
                       duration |-> duration, aura |-> showAura]]

applySpeedModifier(S, p, multiplier, duration, type) ==
  LET p1 == [S.players[p] EXCEPT !.speedMultiplier = multiplier,
                                 !.speedResetTimer = NoTimer]
      p2 == setPlayerEffect(p1, type, duration, TRUE, S.now)
  IN [S EXCEPT !.players[p] = [p2 EXCEPT !.speedResetTimer = S.now + duration]]

\* Variant: the callback clears the effect and leaves the multiplier.
speedResetCallbackKeepsSpeed(player) ==
  clearPlayerEffect([player EXCEPT !.speedResetTimer = NoTimer])

\* The callback applySpeedModifier schedules.
speedResetCallback(player) ==
  clearPlayerEffect([player EXCEPT !.speedMultiplier = BASE_MULTIPLIER,
                                   !.speedResetTimer = NoTimer])

applyCloak(S, p, duration) ==
  LET p1 == setPlayerEffect(S.players[p], "cloak", duration, FALSE, S.now)
  IN [S EXCEPT !.players[p] = [p1 EXCEPT !.cloakVisual = TRUE],
               !.delayedCalls = @ \cup {[kind |-> "cloakExpire", player |-> p,
                                         at |-> S.now + duration]}]

\* The callback applyCloak schedules.
cloakExpireCallback(player) ==
  IF player.activeEffect.type = "cloak" THEN clearPlayerEffect(player) ELSE player

applyDisruptEffect(S, p) ==
  applySpeedModifier(S, Opponent(p), DISRUPT_MULTIPLIER, DISRUPT_DURATION, "slow")

updateEffectAura(player, t) ==
  IF player.activeEffect.type = "none" \/ ~player.activeEffect.aura THEN player
  ELSE IF player.activeEffect.expires - t <= 0 THEN clearPlayerEffect(player)
  ELSE player

BehaviorEffects == {"boost", "slow", "cloak", "disrupt"}

\* The behaviorPickups overlap handler, for a pickup carrying `effect`.
behaviorOverlap(S, p, effect) ==
  IF isPlayerCloaked(S.players[p]) /\ effect \in {"slow", "disrupt"} THEN S
  ELSE CASE effect = "boost" ->
              applySpeedModifier(S, p, BOOST_MULTIPLIER, BEHAVIOR_DURATION, "boost")
         [] effect = "slow" ->
              applySpeedModifier(S, p, SLOW_MULTIPLIER, BEHAVIOR_DURATION, "slow")
         [] effect = "cloak" -> applyCloak(S, p, CLOAK_DURATION)
         [] effect = "disrupt" -> applyDisruptEffect(S, p)
         [] OTHER -> S

\* ------------------------------------------------------------------------
\* Hooks
\* ------------------------------------------------------------------------
\* Variant: the charge count is not clamped.
adjustHookChargesUnclamped(player, delta) ==
  [player EXCEPT !.hookCharges = player.hookCharges + delta]

adjustHookCharges(player, delta) ==
  [player EXCEPT !.hookCharges = Clamp(player.hookCharges + delta, 0, player.maxHookCharges)]

\* Variant: the cooldown is not looked at.
attemptHookNoCooldown(S, p, distance) ==
  IF S.roundOver THEN S
  ELSE IF S.players[p].hookCharges <= 0 THEN S
  ELSE IF distance > HOOK_RANGE THEN S
  ELSE [S EXCEPT !.activeHooks[p] = [target |-> Opponent(p),
                                      expires |-> S.now + HOOK_DURATION],
                 !.tethers = @ - (IF S.activeHooks[p] # NoHook THEN 1 ELSE 0) + 1,
                 !.hookTimers[p] = S.now,
                 !.players[p] = adjustHookCharges(@, -1)]

\* Variant: the shooter's earlier tether is not destroyed.
attemptHookKeepsOld(S, p, distance) ==
  IF S.roundOver THEN S
  ELSE IF S.now - S.hookTimers[p] < HOOK_COOLDOWN THEN S
  ELSE IF S.players[p].hookCharges <= 0 THEN S
  ELSE IF distance > HOOK_RANGE THEN S
  ELSE [S EXCEPT !.activeHooks[p] = [target |-> Opponent(p),
                                      expires |-> S.now + HOOK_DURATION],
                 !.tethers = @ + 1,
                 !.hookTimers[p] = S.now,
                 !.players[p] = adjustHookCharges(@, -1)]

\* distance: the distance between the two players' shapes at the call.
attemptHook(S, p, distance) ==
  IF S.roundOver THEN S
  ELSE IF S.now - S.hookTimers[p] < HOOK_COOLDOWN THEN S
  ELSE IF S.players[p].hookCharges <= 0 THEN S
  ELSE IF distance > HOOK_RANGE THEN S
  ELSE [S EXCEPT !.activeHooks[p] = [target |-> Opponent(p),
                                      expires |-> S.now + HOOK_DURATION],
                 !.tethers = @ - (IF S.activeHooks[p] # NoHook THEN 1 ELSE 0) + 1,
                 !.hookTimers[p] = S.now,
                 !.players[p] = adjustHookCharges(@, -1)]

releaseHook(S, p) ==
  IF S.activeHooks[p] = NoHook THEN S
  ELSE [S EXCEPT !.activeHooks[p] = NoHook, !.tethers = @ - 1]

\* One in the unit of body.velocity.
Whole == BASE_MULTIPLIER * BASE_MULTIPLIER

\* The pull of shooter p's tether on its target: the target keeps
\* HOOK_PULL_DECAY of its velocity and gains the tug, which falls linearly
\* from HOOK_PULL_STRENGTH to 0.4 of it over the tether's life (the two are
\* added as speeds along one line); the shooter's velocity is damped.
pullTarget(S, p) ==
  LET target == S.activeHooks[p].target
      left == Clamp(S.activeHooks[p].expires - S.now, 0, HOOK_DURATION)
      low == (HOOK_PULL_STRENGTH * 4) \div 10
      tug == low + ((HOOK_PULL_STRENGTH - low) * left) \div HOOK_DURATION
  IN [S EXCEPT
        !.players[target].velocity =
           (@ * HOOK_PULL_DECAY) \div BASE_MULTIPLIER + tug * Whole,
        !.players[p].velocity = (@ * SHOOTER_RECOIL_FACTOR) \div BASE_MULTIPLIER]

\* Variant: a tether is released on expiry or round end only.
RECURSIVE updateHooksOfNoBreak(_, _, _)
updateHooksOfNoBreak(S, ids, distance) ==
  IF ids = <<>> THEN S
  ELSE LET p == Head(ids)
           S1 == IF S.activeHooks[p] = NoHook THEN S
                 ELSE IF S.activeHooks[p].expires <= S.now \/ S.roundOver
                   THEN releaseHook(S, p)
                 ELSE IF distance > 0 THEN pullTarget(S, p)
                 ELSE S
       IN updateHooksOfNoBreak(S1, Tail(ids), distance)

\* updateHooks, for the entries of the players in ids.
RECURSIVE updateHooksOf(_, _, _)
updateHooksOf(S, ids, distance) ==
  IF ids = <<>> THEN S
  ELSE LET p == Head(ids)
           S1 == IF S.activeHooks[p] = NoHook THEN S
                 ELSE IF S.activeHooks[p].expires <= S.now \/ S.roundOver
                   THEN releaseHook(S, p)
                 ELSE IF distance < HOOK_BREAK_DISTANCE THEN releaseHook(S, p)
                 ELSE IF distance > 0 THEN pullTarget(S, p)
                 ELSE S
       IN updateHooksOf(S1, Tail(ids), distance)

updateHooks(S, distance) == updateHooksOf(S, PlayerOrder, distance)

\* ------------------------------------------------------------------------
\* Overlap handlers wired by create
\* ------------------------------------------------------------------------
\* Variant: the energy handler has no role check.
energyOverlapAnyRole(S, p) ==
  IF isShootingMode(S) THEN S
  ELSE evaluateScore([S EXCEPT !.players[p].score = @ + 1], p)

\* Each handler is given for an overlap of player p with an active member of
\* the group; the pickup populations themselves (and the replacement each
\* handler spawns while the round is active) belong to the placement model.
energyOverlap(S, p) ==
  IF isPursuitMode(S) /\ S.players[p].role # "collector" THEN S
  ELSE IF isShootingMode(S) THEN S
  ELSE evaluateScore([S EXCEPT !.players[p].score = @ + 1], p)

rareEnergyOverlap(S, p) ==
  IF isPursuitMode(S) /\ S.players[p].role # "collector" THEN S
  ELSE IF isShootingMode(S) THEN S
  ELSE evaluateScore([S EXCEPT !.players[p].score = @ + 3], p)

\* Whether the energy or rareEnergy handler reaches orb.destroy() for an
\* overlap of player p (both handlers return on the same two checks).
orbTaken(S, p) ==
  /\ ~(isPursuitMode(S) /\ S.players[p].role # "collector")
  /\ ~isShootingMode(S)

\* Variant: the hazard penalty is not followed by evaluateScore.
hazardOverlapNoEvaluate(S, p) ==
  IF isPlayerCloaked(S.players[p]) THEN S
  ELSE IF isShootingMode(S)
    THEN damageShields(S, p, S.settings.projectileDamage)
  ELSE IF isPursuitMode(S) /\ S.players[p].role # "collector"
    THEN S
  ELSE [S EXCEPT !.players[p].score = @ - 2]

\* Variant: the hazard handler does not look at the cloak.
hazardOverlapNoCloak(S, p) ==
  IF isShootingMode(S)
    THEN damageShields(S, p, S.settings.projectileDamage)
  ELSE IF isPursuitMode(S) /\ S.players[p].role # "collector"
    THEN S
  ELSE evaluateScore([S EXCEPT !.players[p].score = @ - 2], p)

hazardOverlap(S, p) ==
  IF isPlayerCloaked(S.players[p]) THEN S
  ELSE IF isShootingMode(S)
    THEN damageShields(S, p, S.settings.projectileDamage)
  ELSE IF isPursuitMode(S) /\ S.players[p].role # "collector"
    THEN S
  ELSE evaluateScore([S EXCEPT !.players[p].score = @ - 2], p)

\* The projectile overlap handler, for a live bolt fired by the other player.
projectileOverlap(S, p) ==
  IF ~isShootingMode(S) THEN S
  ELSE damageShields(S, p, S.settings.projectileDamage)

ropeOverlap(S, p) == [S EXCEPT !.players[p] = adjustHookCharges(@, 1)]

skullOverlap(S, p) ==
  IF S.roundOver THEN S
  ELSE recordWin(S, Opponent(p), "debt")

\* Variant: the cooldown is written but never read.
handleTagCollisionNoCooldown(S) ==
  IF ~isPursuitMode(S) \/ S.roundOver THEN S
  ELSE IF ~(\E c \in PlayerIds : S.players[c].role = "chaser")
          \/ ~(\E c \in PlayerIds : S.players[c].role = "collector") THEN S
  ELSE LET chaser == CHOOSE c \in PlayerIds : S.players[c].role = "chaser"
           collector == CHOOSE c \in PlayerIds : S.players[c].role = "collector"
       IN registerTag([S EXCEPT !.tagCooldowns[chaser] = S.now + TAG_COOLDOWN],
                      chaser, collector)

handleTagCollision(S) ==
  IF ~isPursuitMode(S) \/ S.roundOver THEN S
  ELSE IF ~(\E c \in PlayerIds : S.players[c].role = "chaser")
          \/ ~(\E c \in PlayerIds : S.players[c].role = "collector") THEN S
  ELSE LET chaser == CHOOSE c \in PlayerIds : S.players[c].role = "chaser"
           collector == CHOOSE c \in PlayerIds : S.players[c].role = "collector"
       IN IF S.tagCooldowns[chaser] > S.now THEN S
          ELSE registerTag([S EXCEPT !.tagCooldowns[chaser] = S.now + TAG_COOLDOWN],
                           chaser, collector)


\* ------------------------------------------------------------------------
\* One frame: the clock fires the due timers, then update() runs
\* ------------------------------------------------------------------------
Due(S, kind) == {c \in S.delayedCalls : c.kind = kind /\ c.at <= S.now}

fireModeTimer(S) ==
  IF S.modeTimer = NoTimer \/ S.modeTimer > S.now THEN S
  ELSE LET S1 == [S EXCEPT !.modeTimer = NoTimer]
       IN IF S1.roundOver THEN S1
          ELSE IF \E c \in PlayerIds : S1.players[c].role = "collector"
            THEN recordWin(S1, CHOOSE c \in PlayerIds : S1.players[c].role = "collector", "timer")
          ELSE S1

fireEffectTimers(S) ==
  [S EXCEPT
     !.players = [p \in PlayerIds |->
        LET p0 == S.players[p]
            p1 == IF p0.speedResetTimer # NoTimer /\ p0.speedResetTimer <= S.now
                  THEN speedResetCallback(p0) ELSE p0
        IN IF \E c \in Due(S, "cloakExpire") : c.player = p
           THEN cloakExpireCallback(p1) ELSE p1],
     !.delayedCalls = @ \ Due(S, "cloakExpire")]

\* The callbacks of the power pickup handler that are due respawn a pickup.
firePowerTimers(S) ==
  [spawnPowerPickups(S, Cardinality(Due(S, "powerRespawn"))) EXCEPT
     !.delayedCalls = @ \ Due(S, "powerRespawn")]

\* The respawn callbacks of the rope, teleport and skull handlers that are
\* due; found: whether findSpawnPosition returns a position in this frame.
firePickupTimers(S, found) ==
  LET n == IF found THEN 1 ELSE 0
      rope == Cardinality(Due(S, "ropeRespawn"))
      teleport == Cardinality(Due(S, "teleportRespawn"))
      skull == Cardinality(Due(S, "skullRespawn"))
      S1 == spawnRopePickups(S, rope, rope * n)
      S2 == spawnTeleportPickups(S1, teleport, teleport * n)
      S3 == spawnSkullPickups(S2, skull, skull * n)
  IN [S3 EXCEPT !.delayedCalls = @ \ (Due(S, "ropeRespawn")
                                       \cup Due(S, "teleportRespawn")
                                       \cup Due(S, "skullRespawn"))]

\* The keys of one player in a frame: "move" is a direction key that is
\* down, "shoot" the shoot key that is down, and "dash", "hook" and "power"
\* the keys JustDown reports.
KeyNames == {"move", "dash", "hook", "shoot", "power"}

getProjectileRange(S) ==
  (S.settings.projectileSpeed * S.settings.projectileLifetimeMs) \div 1000

fireProjectile(S, p) ==
  IF ~isShootingMode(S) \/ S.roundOver THEN S
  ELSE IF S.projectileCooldowns[p] > S.now THEN S
  ELSE [S EXCEPT !.projectileCooldowns[p] = S.now + S.settings.projectileCooldownMs]

\* Variant: a target is found at any distance.
updatePlayerShootingAnyRange(S, p, keys, distance) ==
  IF ~isShootingMode(S) \/ S.roundOver THEN S
  ELSE IF "shoot" \notin keys THEN S
  ELSE IF ~(S.projectileCooldowns[p] <= S.now) THEN S
  ELSE [fireProjectile(S, p) EXCEPT
          !.players[p].velocity = (@ * SHOOT_RECOIL_DAMPENING) \div BASE_MULTIPLIER]

\* distance: the distance to the other player, the only candidate target.
updatePlayerShooting(S, p, keys, distance) ==
  IF ~isShootingMode(S) \/ S.roundOver THEN S
  ELSE IF "shoot" \notin keys THEN S
  ELSE IF ~(S.projectileCooldowns[p] <= S.now) THEN S
  ELSE IF distance > getProjectileRange(S) \/ distance = 0 THEN S
  ELSE [fireProjectile(S, p) EXCEPT
          !.players[p].velocity = (@ * SHOOT_RECOIL_DAMPENING) \div BASE_MULTIPLIER]

\* Variant: a dash starts whenever its key goes down with a direction held.
updatePlayerMovementNoCooldown(S, p, keys, distance, draw) ==
  IF S.roundOver THEN [S EXCEPT !.players[p].velocity = 0]
  ELSE IF S.dashState[p] # NoTimer /\ S.dashState[p] > S.now
  THEN [S EXCEPT !.players[p].velocity = DASH_SPEED * Whole]
  ELSE LET hasInput == "move" \in keys
           total == S.players[p].speedMultiplier * S.players[p].surfaceMultiplier
                      * S.players[p].roleSpeedMultiplier
           S1 == [S EXCEPT !.dashState[p] = NoTimer,
                           !.players[p].velocity =
                              IF hasInput
                              THEN (PLAYER_SPEED * total) \div BASE_MULTIPLIER ELSE 0]
           S2 == IF hasInput /\ "dash" \in keys
                 THEN [S1 EXCEPT !.dashState[p] = S1.now + DASH_DURATION,
                                 !.lastDash[p] = S1.now,
                                 !.players[p].velocity =
                                    (DASH_SPEED * total) \div BASE_MULTIPLIER]
                 ELSE S1
           S3 == IF ~isShootingMode(S2) /\ "hook" \in keys
                 THEN attemptHook(S2, p, distance) ELSE S2
           S4 == updatePlayerShooting(S3, p, keys, distance)
       IN IF "power" \in keys THEN consumePlayerPower(S4, p, draw) ELSE S4

\* Variant: the keys are read whether or not the round is over.
updatePlayerMovementAlways(S, p, keys, distance, draw) ==
  IF S.dashState[p] # NoTimer /\ S.dashState[p] > S.now
  THEN [S EXCEPT !.players[p].velocity = DASH_SPEED * Whole]
  ELSE LET hasInput == "move" \in keys
           total == S.players[p].speedMultiplier * S.players[p].surfaceMultiplier
                      * S.players[p].roleSpeedMultiplier
           S1 == [S EXCEPT !.dashState[p] = NoTimer,
                           !.players[p].velocity =
                              IF hasInput
                              THEN (PLAYER_SPEED * total) \div BASE_MULTIPLIER ELSE 0]
           dashReady == S1.now - S1.lastDash[p] >= DASH_COOLDOWN
           S2 == IF dashReady /\ hasInput /\ "dash" \in keys
                 THEN [S1 EXCEPT !.dashState[p] = S1.now + DASH_DURATION,
                                 !.lastDash[p] = S1.now,
                                 !.players[p].velocity =
                                    (DASH_SPEED * total) \div BASE_MULTIPLIER]
                 ELSE S1
           S3 == IF ~isShootingMode(S2) /\ "hook" \in keys
                 THEN attemptHook(S2, p, distance) ELSE S2
           S4 == updatePlayerShooting(S3, p, keys, distance)
       IN IF "power" \in keys THEN consumePlayerPower(S4, p, draw) ELSE S4

\* updatePlayerMovement for player p, whose keys are keys in this frame.
updatePlayerMovement(S, p, keys, distance, draw) ==
  IF S.roundOver THEN [S EXCEPT !.players[p].velocity = 0]
  ELSE IF S.dashState[p] # NoTimer /\ S.dashState[p] > S.now
  THEN [S EXCEPT !.players[p].velocity = DASH_SPEED * Whole]
  ELSE LET hasInput == "move" \in keys
           total == S.players[p].speedMultiplier * S.players[p].surfaceMultiplier
                      * S.players[p].roleSpeedMultiplier
           S1 == [S EXCEPT !.dashState[p] = NoTimer,
                           !.players[p].velocity =
                              IF hasInput
                              THEN (PLAYER_SPEED * total) \div BASE_MULTIPLIER ELSE 0]
           dashReady == S1.now - S1.lastDash[p] >= DASH_COOLDOWN
           S2 == IF dashReady /\ hasInput /\ "dash" \in keys
                 THEN [S1 EXCEPT !.dashState[p] = S1.now + DASH_DURATION,
                                 !.lastDash[p] = S1.now,
                                 !.players[p].velocity =
                                    (DASH_SPEED * total) \div BASE_MULTIPLIER]
                 ELSE S1
           S3 == IF ~isShootingMode(S2) /\ "hook" \in keys
                 THEN attemptHook(S2, p, distance) ELSE S2
           S4 == updatePlayerShooting(S3, p, keys, distance)
       IN IF "power" \in keys THEN consumePlayerPower(S4, p, draw) ELSE S4

\* pad, over and draws give each player's keys, the ids of the zones the
\* player's bounds intersect, and the number drawn if a glue field is laid.
RECURSIVE updatePlayers(_, _, _, _, _, _)
updatePlayers(S, ids, pad, over, distance, draws) ==
  IF ids = <<>> THEN S
  ELSE LET p == Head(ids)
           S1 == updatePlayerSurface(S, p, over[p])
           S2 == updatePlayerMovement(S1, p, pad[p], distance, draws[p])
           S3 == [S2 EXCEPT !.players[p] = updateEffectAura(@, S2.now)]
       IN updatePlayers(S3, Tail(ids), pad, over, distance, draws)

update(S, pad, over, distance, draws) ==
  updateHooks(updatePlayers(pruneSurfaceZones(S), PlayerOrder, pad, over,
                            distance, draws),
              distance)

\* One frame, delta milliseconds after the previous one.
runFrame(S, delta, pad, over, distance, draws, found) ==
  LET S0 == [S EXCEPT !.now = S.now + delta]
  IN IF Due(S0, "restart") # {}
     THEN create(S0, S0.settings)
     ELSE update(firePickupTimers(
                   firePowerTimers(fireEffectTimers(fireModeTimer(S0))), found),
                 pad, over, distance, draws)

\* A frame in which only hook keys go down and no surface zone is overlapped.
tick(S, delta, hookKeys, distance) ==
  runFrame(S, delta,
           [p \in PlayerIds |-> IF p \in hookKeys THEN {"hook"} ELSE {}],
           [p \in PlayerIds |-> {}], distance, [p \in PlayerIds |-> 0], TRUE)

\* ------------------------------------------------------------------------
\* The upgrade intermission (UpgradeModal, src/unnamed/part_002)
\* ------------------------------------------------------------------------
\* A click on player p's card for upgrade u.
modalSpend(S, p, u) == [S EXCEPT !.balances = spendCurrency(S.balances, p, u)]

\* handleAcknowledged; the promise of open() resolves when every player has
\* acknowledged, and the scene restarts.
\* Variant: the promise is resolved by the first acknowledgement.
handleAcknowledgedFirst(S, p) ==
  create([S EXCEPT !.upgradeModal = ClosedModal], S.settings)

handleAcknowledged(S, p) ==
  LET ack == S.upgradeModal.acknowledged \cup {p}
  IN IF Cardinality(ack) >= Cardinality(PlayerIds)
     THEN create([S EXCEPT !.upgradeModal = ClosedModal], S.settings)
     ELSE [S EXCEPT !.upgradeModal.acknowledged = ack]

\* ------------------------------------------------------------------------
\* Spawn placement
\* ------------------------------------------------------------------------
\* A region is a game object by its bounding box: centre and half extents.
Region(kind, x, y, hw, hh) == [kind |-> kind, x |-> x, y |-> y, hw |-> hw, hh |-> hh]

\* getBounds(): the rectangle [x, right] x [y, bottom] of a region.
getBounds(r) ==
  [x |-> r.x - r.hw, y |-> r.y - r.hh, right |-> r.x + r.hw, bottom |-> r.y + r.hh]

\* Phaser.Geom.Intersects.RectangleToRectangle: rectangles that touch overlap.
RectangleToRectangle(a, b) ==
  IF a.right - a.x <= 0 \/ a.bottom - a.y <= 0 \/ b.right - b.x <= 0 \/ b.bottom - b.y <= 0
  THEN FALSE
  ELSE ~(a.right < b.x \/ a.bottom < b.y \/ a.x > b.right \/ a.y > b.bottom)

\* The bounds circleOverlapsShapes builds around the clearance circle.
CircleBounds(x, y, radius) ==
  [x |-> x - radius, y |-> y - radius, right |-> x + radius, bottom |-> y + radius]

\* The groups circleOverlapsShapes looks at.
CheckedKinds ==
  {"player", "obstacle", "movingObstacle", "energy", "rareEnergy", "hazard",
   "behavior", "rope", "power", "teleport"}

circleOverlapsShapes(ar, x, y, radius) ==
  \E r \in ar :
    /\ r.kind \in CheckedKinds
    /\ RectangleToRectangle(CircleBounds(x, y, radius), getBounds(r))

\* The spawn routines explored: the clearance radius each asks for, and the
\* half extents of the shape it adds.
SpawnKinds == {"energy", "hazard", "rope", "skull", "movingObstacle"}

SpawnRadius(kind) ==
  CASE kind = "energy" -> 12
    [] kind = "hazard" -> 16
    [] kind = "rope" -> 12
    [] kind = "skull" -> 16
    [] kind = "movingObstacle" -> 28
    [] OTHER -> 0

\* Phaser.Math.Between(48, 96) for a moving obstacle's width; its height is
\* drawn from 16..28.
MovingWidths == {48, 96}
MovingHeights == {16}

ShapeExtents(kind) ==
  CASE kind = "energy" -> {[hw |-> 10, hh |-> 10]}
    [] kind = "hazard" -> {[hw |-> 12, hh |-> 12]}
    [] kind = "rope" -> {[hw |-> 12, hh |-> 12]}
    [] kind = "skull" -> {[hw |-> 14, hh |-> 14]}
    [] kind = "movingObstacle" ->
         {[hw |-> w \div 2, hh |-> h \div 2] : w \in MovingWidths, h \in MovingHeights}
    [] OTHER -> {}

\* countActive(true) >= LIMIT, for the routines that have a limit.
AtLimit(ar, kind) ==
  LET n == Cardinality({r \in ar : r.kind = kind})
  IN CASE kind = "rope" -> n >= ROPE_PICKUP_LIMIT
       [] kind = "skull" -> n >= SKULL_PICKUP_LIMIT
       [] OTHER -> FALSE

\* Variant: one draw more than MAX_SPAWN_ATTEMPTS.
findSpawnStepOneMore(sp, ar, x, y) ==
  IF ~circleOverlapsShapes(ar, x, y, sp.radius)
  THEN [sp EXCEPT !.attempt = @ + 1, !.result = "found", !.x = x, !.y = y, !.pc = "place"]
  ELSE IF sp.attempt + 1 <= MAX_SPAWN_ATTEMPTS
       THEN [sp EXCEPT !.attempt = @ + 1]
       ELSE [sp EXCEPT !.attempt = @ + 1, !.result = "none", !.pc = "place"]

\* One iteration of findSpawnPosition's loop, for the draw (x, y); attempt
\* counts the draws made.  After the last failed draw the loop is left and
\* undefined is returned.
findSpawnStep(sp, ar, x, y) ==
  IF ~circleOverlapsShapes(ar, x, y, sp.radius)
  THEN [sp EXCEPT !.attempt = @ + 1, !.result = "found", !.x = x, !.y = y, !.pc = "place"]
  ELSE IF sp.attempt + 1 < MAX_SPAWN_ATTEMPTS
       THEN [sp EXCEPT !.attempt = @ + 1]
       ELSE [sp EXCEPT !.attempt = @ + 1, !.result = "none", !.pc = "place"]

\* The head of a spawn routine's for loop: done, break at the limit, or
\* call findSpawnPosition.
spawnLoopHead(sp, ar) ==
  IF sp.left = 0 \/ AtLimit(ar, sp.kind)
  THEN [sp EXCEPT !.pc = "idle", !.left = 0, !.result = "none", !.attempt = 0]
  ELSE [sp EXCEPT !.pc = "find", !.attempt = 0, !.result = "none"]

\* The rest of the loop body: `if (!position) continue;`, else the shape is
\* added to its group.
spawnPlace(ar, sp, ext) ==
  IF sp.result = "none" THEN ar
  ELSE ar \cup {Region(sp.kind, sp.x, sp.y, ext.hw, ext.hh)}

\* ------------------------------------------------------------------------
\* Specification of the round engine
\* ------------------------------------------------------------------------
\* Frame lengths and player distances the model draws from.
TickSteps == {15000}
HookSteps == {1800}
Distances == {40, 200, 300}

\* The scene object before its first create().
NewScene ==
  [settings |-> CHOOSE s \in SettingsChoices : TRUE,
   players |-> [id \in PlayerIds |->
                  createPlayer(0, "collector", BASE_MULTIPLIER, 0, 0, FALSE)],
   matchWins |-> [id \in PlayerIds |-> 0],
   roundOver |-> FALSE,
   lastChaserId |-> "none",
   tagCooldowns |-> [id \in PlayerIds |-> 0],
   modeTimer |-> NoTimer,
   modeTimerExpiresAt |-> NoTimer,
   lastRoundEarnings |-> [id \in PlayerIds |-> 0],
   upgradeModal |-> ClosedModal,
   hookTimers |-> [id \in PlayerIds |-> 0],
   activeHooks |-> [id \in PlayerIds |-> NoHook],
   tethers |-> 0,
   balances |-> [id \in PlayerIds |-> EmptyEntry],
   now |-> 0,
   delayedCalls |-> {},
   lastWin |-> NoWin,
   applied |-> [id \in PlayerIds |-> NoApplied],
   frame |-> NoFrame,
   touch |-> NoTouch,
   audit |-> NoAudit,
   stale |-> {},
   dashState |-> [id \in PlayerIds |-> NoTimer],
   lastDash |-> [id \in PlayerIds |-> 0],
   projectileCooldowns |-> [id \in PlayerIds |-> 0],
   surfaceZones |-> <<>>,
   powerPickups |-> 0,
   input |-> NoInput,
   entered |-> [id \in PlayerIds |-> <<>>],
   tags |-> NoTags,
   acts |-> [id \in PlayerIds |-> NoActs],
   pickups |-> [g \in PickupGroups |-> 0],
   step |-> NoStep,
   rounds |-> 0]

NoArena == {}
NoSpawn == [pc |-> "idle", kind |-> "none", radius |-> 0, left |-> 0, attempt |-> 0,
            result |-> "none", x |-> 0, y |-> 0]

\* The first round: create() on the new scene, for some settings.
Init ==
  /\ \E s \in SettingsChoices : Start(create(NewScene, s))
  /\ arena = NoArena
  /\ spawn = NoSpawn

\* An overlap handled after the round was decided is counted in lastWin.
Late(S) == IF roundOver THEN [S EXCEPT !.lastWin.late = @ + 1] ELSE S

EnergyOverlap ==
  \E p \in PlayerIds :
    /\ roundOver => lastWin.late < MaxLate
    /\ Commit(Late(energyOverlap(Scene, p)))
    /\ UNCHANGED spawnVars

RareEnergyOverlap ==
  \E p \in PlayerIds :
    /\ roundOver => lastWin.late < MaxLate
    /\ Commit(Late(rareEnergyOverlap(Scene, p)))
    /\ UNCHANGED spawnVars

HazardOverlap ==
  \E p \in PlayerIds :
    /\ roundOver => lastWin.late < MaxLate
    /\ Commit(Late(hazardOverlap(Scene, p)))
    /\ UNCHANGED spawnVars

ProjectileOverlap ==
  \E p \in PlayerIds :
    /\ settings.mode = "shooting"
    /\ Commit(projectileOverlap(Scene, p))
    /\ UNCHANGED spawnVars

SkullOverlap ==
  \E p \in PlayerIds :
    /\ settings.mode # "shooting"
    /\ Commit(skullOverlap(Scene, p))
    /\ UNCHANGED spawnVars

\* S1 is the scene after handleTagCollision ran on S0: it registered a tag
\* exactly when it set the chaser's cooldown; a collision it handled in an
\* active round while a cooldown was running is noted as refused.
NoteTag(S0, S1) ==
  IF S1.tagCooldowns # S0.tagCooldowns
  THEN [S1 EXCEPT !.tags.count = @ + 1, !.tags.last = S0.now]
  ELSE IF /\ ~S0.roundOver
          /\ \E c \in PlayerIds : S0.players[c].role = "chaser"
                                   /\ S0.tagCooldowns[c] > S0.now
       THEN [S1 EXCEPT !.tags.refused = TRUE]
       ELSE S1

TagCollision ==
  /\ settings.mode = "pursuit"
  /\ Commit(NoteTag(Scene, handleTagCollision(Scene)))
  /\ UNCHANGED spawnVars

\* A frame in which no hook key goes down.
Tick ==
  \E d \in TickSteps :
    /\ now + d <= MaxNow
    /\ (\E c \in delayedCalls : c.kind = "restart" /\ c.at <= now + d) => rounds < MaxRounds
    /\ Commit(tick(Scene, d, {}, HOOK_RANGE + 1))
    /\ UNCHANGED spawnVars

Acknowledge ==
  \E p \in PlayerIds :
    /\ upgradeModal.open
    /\ p \notin upgradeModal.acknowledged
    /\ (upgradeModal.acknowledged \cup {p} = PlayerIds => rounds < MaxRounds)
    /\ Commit(handleAcknowledged(Scene, p))
    /\ UNCHANGED spawnVars

\* ESC leaves for the menu, and the arena is started again from there.
EscapeRestart ==
  /\ rounds < MaxRounds
  /\ Commit(create(Scene, settings))
  /\ UNCHANGED spawnVars

Next ==
  \/ EnergyOverlap
  \/ RareEnergyOverlap
  \/ HazardOverlap
  \/ ProjectileOverlap
  \/ SkullOverlap
  \/ TagCollision
  \/ Tick
  \/ Acknowledge
  \/ EscapeRestart

Spec == Init /\ [][Next]_vars

\* ------------------------------------------------------------------------
\* Specification of hooks, rope pickups and the upgrade shop
\* ------------------------------------------------------------------------
HookSettings ==
  {MkSettings(m, DefaultThreshold, DefaultTagGoal, 0, DefaultDamage) : m \in Modes}

InitHook ==
  /\ \E s \in HookSettings : Start(create(NewScene, s))
  /\ arena = NoArena
  /\ spawn = NoSpawn

\* A frame in which the players in hookKeys press their hook key.
HookTick ==
  \E d \in HookSteps, hookKeys \in SUBSET PlayerIds, distance \in Distances :
    /\ now + d <= MaxHookNow
    /\ Commit(tick(Scene, d, hookKeys, distance))
    /\ UNCHANGED spawnVars

RopeOverlap ==
  \E p \in PlayerIds :
    /\ settings.mode # "shooting"
    /\ Commit(ropeOverlap(Scene, p))
    /\ UNCHANGED spawnVars

SpendUpgrade ==
  \E p \in PlayerIds, u \in UpgradeIds :
    /\ upgradeModal.open
    /\ rounds < MaxRounds
    /\ Commit(modalSpend(Scene, p, u))
    /\ UNCHANGED spawnVars

\* A click on the Afterburner card.
SpendAfterburner ==
  \E p \in PlayerIds :
    /\ upgradeModal.open
    /\ rounds < MaxRounds
    /\ Commit(modalSpend(Scene, p, "afterburner"))
    /\ UNCHANGED spawnVars

NextHook ==
  \/ HookTick
  \/ RopeOverlap
  \/ SkullOverlap
  \/ ProjectileOverlap
  \/ SpendUpgrade
  \/ Acknowledge

SpecHook == InitHook /\ [][NextHook]_vars

\* ------------------------------------------------------------------------
\* Specification of the timed effects
\* ------------------------------------------------------------------------
FxSteps == {1500}

FxSettings ==
  {MkSettings("classic", DefaultThreshold, DefaultTagGoal, 0, DefaultDamage),
   MkSettings("pursuit", DefaultThreshold, 1, 0, DefaultDamage)}

InitFx ==
  /\ \E s \in FxSettings : Start(create(NewScene, s))
  /\ arena = NoArena
  /\ spawn = NoSpawn

\* The player a behavior pickup taken by p acts on.
EffectTarget(p, effect) == IF effect = "disrupt" THEN Opponent(p) ELSE p

\* S1 is the scene after the handler ran on S0: when the handler applied an
\* effect, it is noted with the speed multiplier the target had before.
NoteApplied(S0, S1, p, effect) ==
  LET target == EffectTarget(p, effect)
  IN IF S1.players = S0.players THEN S1
     ELSE [S1 EXCEPT !.applied[target] =
             [type |-> S1.players[target].activeEffect.type,
              expires |-> S1.players[target].activeEffect.expires,
              before |-> S0.players[target].speedMultiplier]]

\* The players that take behavior pickups (a disrupt acts on the other one).
EffectTakers == {"p1"}

BehaviorOverlap ==
  \E p \in EffectTakers, effect \in BehaviorEffects :
    /\ Commit(NoteApplied(Scene, behaviorOverlap(Scene, p, effect), p, effect))
    /\ UNCHANGED spawnVars

FxTick ==
  \E d \in FxSteps :
    /\ now + d <= MaxFxNow
    /\ Commit(tick(Scene, d, {}, HOOK_RANGE + 1))
    /\ UNCHANGED spawnVars

NextFx ==
  \/ BehaviorOverlap
  \/ FxTick
  \/ TagCollision
  \/ SpendAfterburner
  \/ Acknowledge

SpecFx == InitFx /\ [][NextFx]_vars

\* ------------------------------------------------------------------------
\* Specification of spawn placement
\* ------------------------------------------------------------------------
\* The positions Phaser.Math.Between draws from, out of radius..(size - radius).
DrawXs(radius) == {radius, ARENA_WIDTH \div 4}
DrawYs(radius) == {radius, (ARENA_HEIGHT * 3) \div 10}

SpawnAmounts == {1, 2}

\* The players at the default spawn points.
PlayerRegions ==
  {Region("player", ARENA_WIDTH \div 4, (ARENA_HEIGHT * 3) \div 10, PLAYER_RADIUS, PLAYER_RADIUS),
   Region("player", (ARENA_WIDTH * 3) \div 4, (ARENA_HEIGHT * 7) \div 10, PLAYER_RADIUS, PLAYER_RADIUS)}

InitSpawn ==
  /\ Start(create(NewScene, MkSettings("classic", DefaultThreshold, DefaultTagGoal, 0, DefaultDamage)))
  /\ arena = PlayerRegions
  /\ spawn = NoSpawn

\* A spawn routine is called for `amount` entities: at round setup, or as
\* the respawn after a pickup was taken.
StartSpawn ==
  \E kind \in SpawnKinds, amount \in SpawnAmounts :
    /\ spawn.pc = "idle"
    /\ Cardinality(arena) + amount <= MaxRegions
    /\ spawn' = [NoSpawn EXCEPT !.pc = "loop", !.kind = kind,
                                !.radius = SpawnRadius(kind), !.left = amount]
    /\ UNCHANGED <<arena, sceneVars>>

SpawnLoop ==
  /\ spawn.pc = "loop"
  /\ spawn' = spawnLoopHead(spawn, arena)
  /\ UNCHANGED <<arena, sceneVars>>

Draw ==
  \E x \in DrawXs(spawn.radius), y \in DrawYs(spawn.radius) :
    /\ spawn.pc = "find"
    /\ spawn' = findSpawnStep(spawn, arena, x, y)
    /\ UNCHANGED <<arena, sceneVars>>

Place ==
  \E ext \in ShapeExtents(spawn.kind) :
    /\ spawn.pc = "place"
    /\ arena' = spawnPlace(arena, spawn, ext)
    /\ spawn' = [spawn EXCEPT !.pc = "loop", !.left = @ - 1]
    /\ UNCHANGED sceneVars

\* A pickup is taken, or a hazard is hit: its shape is destroyed.
Collect ==
  \E r \in arena :
    /\ spawn.pc = "idle"
    /\ r.kind \notin {"player", "movingObstacle"}
    /\ arena' = arena \ {r}
    /\ UNCHANGED <<spawn, sceneVars>>

NextSpawn ==
  \/ StartSpawn
  \/ SpawnLoop
  \/ Draw
  \/ Place
  \/ Collect

SpecSpawn == InitSpawn /\ [][NextSpawn]_vars

\* A spawn routine is synchronous code: once called it runs on.
SpecSpawnLive ==
  /\ InitSpawn
  /\ [][NextSpawn]_vars
  /\ WF_vars(SpawnLoop)
  /\ WF_vars(Draw)
  /\ WF_vars(Place)

\* ------------------------------------------------------------------------
\* Specification of the role assignment across rounds and modes
\* ------------------------------------------------------------------------
RoleSettings ==
  {MkSettings("pursuit", DefaultThreshold, 1, 0, DefaultDamage),
   MkSettings("classic", ShallowThreshold, DefaultTagGoal, 0, DefaultDamage)}

InitRoles ==
  /\ \E s \in RoleSettings : Start(create(NewScene, s))
  /\ arena = NoArena
  /\ spawn = NoSpawn

\* ESC leaves for the menu, where the mode may be changed before the arena
\* is started again.
MenuRestart ==
  \E s \in RoleSettings :
    /\ rounds < MaxRoleRounds
    /\ Commit(create(Scene, s))
    /\ UNCHANGED spawnVars

RoleAcknowledge ==
  \E p \in PlayerIds :
    /\ upgradeModal.open
    /\ p \notin upgradeModal.acknowledged
    /\ (upgradeModal.acknowledged \cup {p} = PlayerIds => rounds < MaxRoleRounds)
    /\ Commit(handleAcknowledged(Scene, p))
    /\ UNCHANGED spawnVars

NextRoles ==
  \/ MenuRestart
  \/ TagCollision
  \/ RoleAcknowledge

SpecRoles == InitRoles /\ [][NextRoles]_vars

\* ------------------------------------------------------------------------
\* Specification of the orbs of a pursuit round
\* ------------------------------------------------------------------------
\* Positions findSpawnPosition may return for an orb (all clear of the
\* players' spawn points).
OrbSpots == {<<100, 100>>, <<400, 300>>, <<700, 100>>}

OrbSettings ==
  {MkSettings("pursuit", DefaultThreshold, g, 0, DefaultDamage) : g \in ChaserTagGoals}

\* The players, one energy orb and one rare orb.
InitialOrbs ==
  PlayerRegions \cup {Region("energy", 100, 100, 10, 10),
                      Region("rareEnergy", 400, 300, 14, 14)}

\* spawnEnergyOrbs(1) / spawnRareEnergy(1) on arena ar: a shape of half
\* extent ext at a position findSpawnPosition(radius) found clear of the
\* regions in occupied, or nothing when it found none.
spawnOne(ar, occupied, kind, radius, ext) ==
  {ar} \cup {ar \cup {Region(kind, q[1], q[2], ext, ext)} :
              q \in {o \in OrbSpots : ~circleOverlapsShapes(occupied, o[1], o[2], radius)}}

\* The arenas the energy/rareEnergy handler may leave, for an overlap of
\* player p with orb r that led from scene S to scene S1.  The player stands
\* on the orb that was taken while the replacement is placed.
orbsAfter(S, S1, p, r, radius, ext) ==
  IF ~orbTaken(S, p) THEN {arena}
  ELSE IF S1.roundOver THEN {arena \ {r}}
  ELSE spawnOne(arena \ {r},
                (arena \ {r}) \cup {Region("player", r.x, r.y, PLAYER_RADIUS, PLAYER_RADIUS)},
                r.kind, radius, ext)

InitOrbs ==
  /\ \E s \in OrbSettings : Start(create(NewScene, s))
  /\ arena = InitialOrbs
  /\ spawn = NoSpawn

TouchEnergy ==
  \E p \in PlayerIds, r \in arena :
    /\ r.kind = "energy"
    /\ Commit(energyOverlap(Scene, p))
    /\ arena' \in orbsAfter(Scene, energyOverlap(Scene, p), p, r, 12, 10)
    /\ UNCHANGED spawn

TouchRareEnergy ==
  \E p \in PlayerIds, r \in arena :
    /\ r.kind = "rareEnergy"
    /\ Commit(rareEnergyOverlap(Scene, p))
    /\ arena' \in orbsAfter(Scene, rareEnergyOverlap(Scene, p), p, r, 16, 14)
    /\ UNCHANGED spawn

\* ESC and a new start of the arena: create() spawns the orbs anew.
OrbRestart ==
  /\ rounds < MaxRounds
  /\ Commit(create(Scene, settings))
  /\ arena' = InitialOrbs
  /\ UNCHANGED spawn

NextOrbs ==
  \/ TouchEnergy
  \/ TouchRareEnergy
  \/ TagCollision
  \/ OrbRestart

SpecOrbs == InitOrbs /\ [][NextOrbs]_vars

\* ------------------------------------------------------------------------
\* Specification of duel rounds
\* ------------------------------------------------------------------------
DuelSettings == {s \in SettingsChoices : s.mode = "shooting"}

InitDuel ==
  /\ \E s \in DuelSettings : Start(create(NewScene, s))
  /\ arena = NoArena
  /\ spawn = NoSpawn

\* A click on the Reserve Core card.
SpendReserveCore ==
  \E p \in PlayerIds :
    /\ upgradeModal.open
    /\ rounds < MaxRounds
    /\ Commit(modalSpend(Scene, p, "reserve-core"))
    /\ UNCHANGED spawnVars

NextDuel ==
  \/ ProjectileOverlap
  \/ HazardOverlap
  \/ SpendReserveCore
  \/ Acknowledge

SpecDuel == InitDuel /\ [][NextDuel]_vars

\* ------------------------------------------------------------------------
\* Specification of the tethers
\* ------------------------------------------------------------------------
TetherSteps == {900, 1800}

TetherSettings ==
  {MkSettings("classic", DefaultThreshold, DefaultTagGoal, 0, DefaultDamage),
   MkSettings("pursuit", DefaultThreshold, DefaultTagGoal, 0, DefaultDamage)}

InitTether ==
  /\ \E s \in TetherSettings : Start(create(NewScene, s))
  /\ arena = NoArena
  /\ spawn = NoSpawn

\* S1 is the scene after a frame: the hook keys that went down in it and
\* the distance the players had in it are noted.
NoteFrame(S1, hookKeys, distance) ==
  [S1 EXCEPT !.frame = [keys |-> hookKeys, distance |-> distance]]

TetherTick ==
  \E d \in TetherSteps, hookKeys \in SUBSET PlayerIds, distance \in Distances :
    /\ now + d <= MaxHookNow
    /\ Commit(NoteFrame(tick(Scene, d, hookKeys, distance), hookKeys, distance))
    /\ UNCHANGED spawnVars

NextTether ==
  \/ TetherTick
  \/ SkullOverlap

SpecTether == InitTether /\ [][NextTether]_vars

\* ------------------------------------------------------------------------
\* Specification of pursuit rounds with the upgrade shop
\* ------------------------------------------------------------------------
ChaseSettings == {s \in SettingsChoices : s.mode = "pursuit"}

InitChase ==
  /\ \E s \in ChaseSettings : Start(create(NewScene, s))
  /\ arena = NoArena
  /\ spawn = NoSpawn

NextChase ==
  \/ TagCollision
  \/ EnergyOverlap
  \/ SkullOverlap
  \/ Tick
  \/ SpendReserveCore
  \/ Acknowledge

SpecChase == InitChase /\ [][NextChase]_vars

\* ------------------------------------------------------------------------
\* Specification of the pickups around a cloaked player
\* ------------------------------------------------------------------------
CloakSettings ==
  {MkSettings(m, DefaultThreshold, DefaultTagGoal, 0, DefaultDamage) : m \in Modes}

\* Frame lengths: a slow has run out after the first, a cloak after the second.
CloakSteps == {3500}

\* A game object of the arena with the 'effect' data of a behavior pickup.
Item(kind, effect, x, y, ext) ==
  [kind |-> kind, x |-> x, y |-> y, hw |-> ext, hh |-> ext, effect |-> effect]

\* The position findSpawnPosition may return for a replacement.
CloakSpots == {<<100, 100>>}

\* The objects create() leaves in the arena, of which the model keeps the
\* players, one hazard and, outside duel mode, three behavior pickups and
\* one skull.
InitialPickups(s) ==
  {Item("player", "none", ARENA_WIDTH \div 4, (ARENA_HEIGHT * 3) \div 10, PLAYER_RADIUS),
   Item("player", "none", (ARENA_WIDTH * 3) \div 4, (ARENA_HEIGHT * 7) \div 10, PLAYER_RADIUS),
   Item("hazard", "none", 400, 300, 12)}
  \cup (IF s.mode = "shooting" THEN {}
        ELSE {Item("behavior", "cloak", 100, 500, 16),
              Item("behavior", "slow", 700, 100, 16),
              Item("behavior", "disrupt", 400, 500, 16),
              Item("skull", "none", 100, 300, 14)})

\* spawnHazards(1) / spawnBehaviorPickups(1) after object r was destroyed
\* under the player: a new object with one of the effects, at a position
\* findSpawnPosition(radius) found clear, or nothing when it found none.
respawn(ar, r, effects, radius) ==
  LET rest == ar \ {r}
      occupied == rest \cup {Item("player", "none", r.x, r.y, PLAYER_RADIUS)}
  IN {rest} \cup {rest \cup {Item(r.kind, e, q[1], q[2], r.hw)} :
                    e \in effects,
                    q \in {o \in CloakSpots : ~circleOverlapsShapes(occupied, o[1], o[2], radius)}}

\* The hazard handler reaches orb.destroy() for an overlap of player p.
hazardTaken(S, p) == ~isPlayerCloaked(S.players[p])

\* The behavior pickup handler reaches item.destroy().
behaviorTaken(S, p, effect) ==
  ~(isPlayerCloaked(S.players[p]) /\ effect \in {"slow", "disrupt"})

\* The skull handler reaches shard.destroy().
skullTaken(S, p) == ~S.roundOver

\* S1 is the scene after the handler ran for player p and an object of the
\* given kind.
NoteTouch(S1, p, r) ==
  [S1 EXCEPT !.touch = [player |-> p, kind |-> r.kind, effect |-> r.effect]]

InitCloak ==
  /\ \E s \in CloakSettings :
       /\ Start(create(NewScene, s))
       /\ arena = InitialPickups(s)
  /\ spawn = NoSpawn

\* The overlaps explored are those of the first player with any object, and
\* of the second player with a disrupt pickup (which acts on the first).
TouchHazard ==
  \E p \in EffectTakers, r \in arena :
    /\ r.kind = "hazard"
    /\ Commit(NoteTouch(hazardOverlap(Scene, p), p, r))
    /\ arena' \in IF ~hazardTaken(Scene, p) THEN {arena}
                  ELSE IF hazardOverlap(Scene, p).roundOver THEN {arena \ {r}}
                  ELSE respawn(arena, r, {"none"}, 16)
    /\ UNCHANGED spawn

TouchBehavior ==
  \E p \in PlayerIds, r \in arena :
    /\ r.kind = "behavior"
    /\ p \in EffectTakers \/ r.effect = "disrupt"
    /\ Commit(NoteTouch(behaviorOverlap(Scene, p, r.effect), p, r))
    /\ arena' \in IF ~behaviorTaken(Scene, p, r.effect) THEN {arena}
                  ELSE respawn(arena, r, BehaviorEffects, 14)
    /\ UNCHANGED spawn

TouchSkull ==
  \E p \in EffectTakers, r \in arena :
    /\ r.kind = "skull"
    /\ Commit(NoteTouch(skullOverlap(Scene, p), p, r))
    /\ arena' = IF skullTaken(Scene, p) THEN arena \ {r} ELSE arena
    /\ UNCHANGED spawn

CloakTick ==
  \E d \in CloakSteps :
    /\ now + d <= MaxFxNow
    /\ Commit([tick(Scene, d, {}, HOOK_RANGE + 1) EXCEPT !.touch = NoTouch])
    /\ UNCHANGED spawnVars

NextCloak ==
  \/ TouchHazard
  \/ TouchBehavior
  \/ TouchSkull
  \/ CloakTick

SpecCloak == InitCloak /\ [][NextCloak]_vars

\* ------------------------------------------------------------------------
\* Specification of the currency ledger
\* ------------------------------------------------------------------------
\* Totals grantRoundCurrency awards (each is 2 or more).
AwardAmounts == {2, 3}

\* The ids the modal passes are those of the catalog; "overdrive" stands for
\* an id the catalog does not hold.
SpendIds == UpgradeIds \cup {"overdrive"}

LedgerSettings ==
  {MkSettings(m, DefaultThreshold, DefaultTagGoal, 0, DefaultDamage) :
     m \in {"classic", "shooting"}}

InitLedger ==
  /\ \E s \in LedgerSettings : Start(create(NewScene, s))
  /\ arena = NoArena
  /\ spawn = NoSpawn

NoteCall(S1, op, p, u, ok) ==
  [S1 EXCEPT !.audit.call = [op |-> op, player |-> p, upgrade |-> u, ok |-> ok]]

\* awardCurrency(p, amount), as grantRoundCurrency calls it.
Award ==
  \E p \in PlayerIds, amount \in AwardAmounts :
    /\ balances[p].totalEarned + amount <= MaxEarned
    /\ Commit(NoteCall([Scene EXCEPT !.balances = awardCurrency(@, p, amount)],
                       "award", p, "none", TRUE))
    /\ UNCHANGED spawnVars

\* spendCurrency(p, u), as the modal's card calls it; a purchase that
\* succeeded is entered in the audit.
Spend ==
  \E p \in PlayerIds, u \in SpendIds :
    /\ LET ok == spendCurrencyResult(balances, p, u)
           S1 == NoteCall(modalSpend(Scene, p, u), "spend", p, u, ok)
       IN Commit(IF ok
                 THEN [S1 EXCEPT !.audit.spent[p] = @ + UPGRADE_CATALOG[u],
                                 !.audit.bought[p] = Append(@, u)]
                 ELSE S1)
    /\ UNCHANGED spawnVars

\* The next round is set up: create() pulls each player's queue.
StartRound ==
  \E s \in LedgerSettings :
    /\ rounds < MaxRoleRounds
    /\ Commit([NoteCall(create(Scene, s), "pull", "none", "none", TRUE)
                 EXCEPT !.audit.bought = [id \in PlayerIds |-> <<>>]])
    /\ UNCHANGED spawnVars

NextLedger ==
  \/ Award
  \/ Spend
  \/ StartRound

SpecLedger == InitLedger /\ [][NextLedger]_vars

\* ------------------------------------------------------------------------
\* Specification of the hazards spawned at round setup
\* ------------------------------------------------------------------------
\* clampSetting('hazardCount', delta, 0, 5): the values the stepper allows.
HazardCounts == 0..5

MineSettings ==
  {[MkSettings(m, DefaultThreshold, DefaultTagGoal, 0, DefaultDamage)
      EXCEPT !.hazardCount = h] : m \in {"classic", "minefield"}, h \in HazardCounts}

\* create() calls spawnHazards() without a count: the loop is entered for
\* getHazardTargetCount() hazards.
spawnHazardsAtSetup(s) ==
  [NoSpawn EXCEPT !.pc = "loop", !.kind = "hazard",
                  !.radius = SpawnRadius("hazard"), !.left = getHazardTargetCount(s)]

InitMine ==
  /\ \E s \in MineSettings :
       /\ Start(create(NewScene, s))
       /\ spawn = spawnHazardsAtSetup(s)
  /\ arena = PlayerRegions

\* The arena is left for the menu and started again with other settings.
SetupRound ==
  \E s \in MineSettings :
    /\ spawn.pc = "idle"
    /\ rounds < MaxRounds
    /\ Commit(create(Scene, s))
    /\ arena' = PlayerRegions
    /\ spawn' = spawnHazardsAtSetup(s)

NextMine ==
  \/ SetupRound
  \/ SpawnLoop
  \/ Draw
  \/ Place

SpecMine == InitMine /\ [][NextMine]_vars

\* ------------------------------------------------------------------------
\* Specification of the timers around a restart
\* ------------------------------------------------------------------------
StaleSettings ==
  {MkSettings("classic", DefaultThreshold, DefaultTagGoal, 0, DefaultDamage),
   MkSettings("pursuit", DefaultThreshold, 1, 15, DefaultDamage)}

\* The timer events of the scene's clock that have not fired: delayed calls,
\* the players' speed reset timers and the mode timer.
PendingTimers(S) ==
  S.delayedCalls
  \cup {[kind |-> "speedReset", player |-> p, at |-> S.players[p].speedResetTimer] :
          p \in {q \in PlayerIds : S.players[q].speedResetTimer # NoTimer}}
  \cup (IF S.modeTimer = NoTimer THEN {}
        ELSE {[kind |-> "mode", player |-> "none", at |-> S.modeTimer]})

\* S1 is the scene after a handler ran on S0: when it set up a round, the
\* timers that were pending in S0 are noted.
NoteStale(S0, S1) ==
  IF S1.rounds = S0.rounds THEN S1 ELSE [S1 EXCEPT !.stale = PendingTimers(S0)]

InitStale ==
  /\ \E s \in StaleSettings : Start(create(NewScene, s))
  /\ arena = NoArena
  /\ spawn = NoSpawn

\* A behavior pickup is taken.
TakeBehavior ==
  \E p \in EffectTakers, effect \in BehaviorEffects :
    /\ Commit(behaviorOverlap(Scene, p, effect))
    /\ UNCHANGED spawnVars

\* The intermission is acknowledged; the last acknowledgement restarts.
StaleAcknowledge ==
  \E p \in PlayerIds :
    /\ upgradeModal.open
    /\ p \notin upgradeModal.acknowledged
    /\ (upgradeModal.acknowledged \cup {p} = PlayerIds => rounds < MaxRounds)
    /\ Commit(NoteStale(Scene, handleAcknowledged(Scene, p)))
    /\ UNCHANGED spawnVars

\* ESC leaves for the menu, and the arena is started again from there.
StaleEscape ==
  /\ rounds < MaxRounds
  /\ Commit(NoteStale(Scene, create(Scene, settings)))
  /\ UNCHANGED spawnVars

NextStale ==
  \/ TakeBehavior
  \/ CloakTick
  \/ SkullOverlap
  \/ StaleAcknowledge
  \/ StaleEscape

SpecStale == InitStale /\ [][NextStale]_vars

\* ------------------------------------------------------------------------
\* Round resolution and payouts (Spec)
\* ------------------------------------------------------------------------
\* The step in which a win is recorded.
WinStep == ~roundOver /\ roundOver'

\* What the ledger credited to player p in this step.
Earned(p) == balances'[p].totalEarned - balances[p].totalEarned

\* The base payout as the specification states it.
SpecBase(score) == Max(1, (Max(score, 0) + 1) \div 2)

SpecBonus(reason) ==
  CASE reason = "tag" -> 3
    [] reason = "score" -> 2
    [] reason = "timer" -> 1
    [] reason = "debt" -> 1

\* C1: once a round is over, no step before the restart changes a win count,
\* a ledger balance or the round-over state, whatever win trigger it carries:
\* one round-over transition and one payout per player and round.
C1_RecordWinOnce ==
  [][(roundOver /\ rounds' = rounds) =>
        /\ roundOver'
        /\ matchWins' = matchWins
        /\ \A p \in PlayerIds : players'[p].wins = players[p].wins
        /\ balances' = balances
        /\ lastRoundEarnings' = lastRoundEarnings
        /\ lastWin'.round = lastWin.round]_vars

\* A second win condition is met in a round that is already over.
C1_Witness ==
  /\ settings.mode = "classic"
  /\ roundOver
  /\ lastWin.late > 0
  /\ \E p \in PlayerIds :
       /\ p # lastWin.winner
       /\ players[p].score >= settings.winningScore
       /\ matchWins[p] = 0

\* C2: in classic mode a pickup that lifts a player's score to winningScore
\* or above in an active round ends the round with that player as the winner
\* for reason 'score'; their win count goes up by 1, the other's stays.
C2_ClassicScoreWin ==
  [][\A p \in PlayerIds :
        (/\ settings.mode = "classic"
         /\ ~roundOver
         /\ rounds' = rounds
         /\ players'[p].score > players[p].score
         /\ players'[p].score >= settings.winningScore)
        => /\ roundOver'
           /\ lastWin'.winner = p
           /\ lastWin'.reason = "score"
           /\ matchWins'[p] = matchWins[p] + 1
           /\ matchWins'[Opponent(p)] = matchWins[Opponent(p)]]_vars

\* A classic round won on score, by a rare pickup that overshot the target.
C2_Witness ==
  /\ settings.mode = "classic"
  /\ roundOver
  /\ lastWin.reason = "score"
  /\ lastWin.late = 0
  /\ players[lastWin.winner].score > settings.winningScore
  /\ matchWins[lastWin.winner] = 1

\* C3: in classic or minefield mode a hazard hit that takes a player's score
\* to negativeLossThreshold or below makes the other player the winner for
\* reason 'debt'; the penalised player's win count does not change.
C3_DebtGivesOpponentWin ==
  [][\A p \in PlayerIds :
        (/\ settings.mode \in {"classic", "minefield"}
         /\ ~roundOver
         /\ rounds' = rounds
         /\ players'[p].score < players[p].score
         /\ players'[p].score <= settings.negativeLossThreshold)
        => /\ roundOver'
           /\ lastWin'.winner = Opponent(p)
           /\ lastWin'.reason = "debt"
           /\ matchWins'[Opponent(p)] = matchWins[Opponent(p)] + 1
           /\ matchWins'[p] = matchWins[p]]_vars

\* A minefield round lost on debt.
C3_Witness ==
  /\ settings.mode = "minefield"
  /\ roundOver
  /\ lastWin.reason = "debt"
  /\ lastWin.late = 0
  /\ players[Opponent(lastWin.winner)].score <= settings.negativeLossThreshold
  /\ matchWins[Opponent(lastWin.winner)] = 0

\* C4: the step that records a win credits every player once, the winner
\* with max(1, round(max(score,0)*0.5)) plus the bonus of the reason (tag 3,
\* score 2, timer 1, debt 1) for the score held at that moment; no other
\* step of the round credits anything.
C4_WinnerPayout ==
  [][/\ WinStep =>
          /\ lastWin'.winner \in PlayerIds
          /\ Earned(lastWin'.winner)
               = SpecBase(players'[lastWin'.winner].score) + SpecBonus(lastWin'.reason)
          /\ \A p \in PlayerIds :
               /\ Earned(p) >= 1
               /\ Earned(p) = lastRoundEarnings'[p]
               /\ balances'[p].balance = balances[p].balance + Earned(p)
     /\ (~WinStep /\ rounds' = rounds) => \A p \in PlayerIds : Earned(p) = 0]_vars

\* A score win at 7 points: the half of 7 rounds up to 4, plus 2.
C4_Witness ==
  /\ roundOver
  /\ lastWin.reason = "score"
  /\ lastWin.late = 0
  /\ players[lastWin.winner].score = 7
  /\ lastRoundEarnings[lastWin.winner] = 6

C6_HookChargesBounded ==
  \A p \in PlayerIds :
    /\ 0 <= players[p].hookCharges
    /\ players[p].hookCharges <= players[p].maxHookCharges

\* A collector with a hook-stock upgrade has fired all four charges.
C6_Witness ==
  /\ settings.mode = "classic"
  /\ \E p \in PlayerIds :
       /\ players[p].maxHookCharges = MAX_HOOK_CHARGES + 1
       /\ players[p].hookCharges = 0

\* ------------------------------------------------------------------------
\* Timed effects (SpecFx)
\* ------------------------------------------------------------------------
\* The effect applied last to p has run its duration.
Elapsed(p) == applied[p].type # "none" /\ now >= applied[p].expires

\* C7 as stated: once the duration of the effect applied last to a player
\* has elapsed, the player's speed multiplier is 1, the player is uncloaked
\* and has no active effect.
C7_ExpiryRestoresOne ==
  \A p \in PlayerIds :
    Elapsed(p) =>
      /\ players[p].speedMultiplier = BASE_MULTIPLIER
      /\ ~players[p].cloakVisual
      /\ players[p].activeEffect = NoEffect

\* C7: once the duration of the effect applied last to a player has
\* elapsed, the player is uncloaked and has no active effect; the speed
\* multiplier is 1 after a boost or slow, and after a cloak it is 1 or still
\* what it was when the cloak was applied.
C7_ExpiryRestoresBaseline ==
  \A p \in PlayerIds :
    Elapsed(p) =>
      /\ ~players[p].cloakVisual
      /\ players[p].activeEffect = NoEffect
      /\ \/ players[p].speedMultiplier = BASE_MULTIPLIER
         \/ /\ applied[p].type = "cloak"
            /\ players[p].speedMultiplier = applied[p].before

\* A cloak has run out on a player who carries an Afterburner upgrade.
C7_Witness ==
  \E p \in PlayerIds :
    /\ Elapsed(p)
    /\ applied[p].type = "cloak"
    /\ players[p].speedMultiplier = BASE_MULTIPLIER + AFTERBURNER_STEP
    /\ players[p].activeEffect = NoEffect

\* C8: a player's speed multiplier and cloak state are those of the active
\* effect alone: a cloaked player carries no boost or slow multiplier, a
\* boosted or slowed player is not cloaked and has that effect's multiplier.
C8_NewEffectReplacesOld ==
  \A p \in PlayerIds :
    /\ players[p].activeEffect.type = "cloak" =>
         /\ players[p].cloakVisual
         /\ players[p].speedMultiplier
              \notin {BOOST_MULTIPLIER, SLOW_MULTIPLIER, DISRUPT_MULTIPLIER}
    /\ players[p].activeEffect.type = "boost" =>
         /\ ~players[p].cloakVisual
         /\ players[p].speedMultiplier = BOOST_MULTIPLIER
    /\ players[p].activeEffect.type = "slow" =>
         /\ ~players[p].cloakVisual
         /\ players[p].speedMultiplier \in {SLOW_MULTIPLIER, DISRUPT_MULTIPLIER}

\* ------------------------------------------------------------------------
\* Spawn placement (SpecSpawn, SpecSpawnLive)
\* ------------------------------------------------------------------------
\* C9: a position findSpawnPosition returns lies in the playfield inset by
\* the radius, and the bounds of its clearance circle overlap the bounds of
\* no region in the arena at that moment, skull pickups included.
C9_SpawnPositionClear ==
  (spawn.pc = "place" /\ spawn.result = "found") =>
     /\ spawn.x \in spawn.radius..(ARENA_WIDTH - spawn.radius)
     /\ spawn.y \in spawn.radius..(ARENA_HEIGHT - spawn.radius)
     /\ \A r \in arena :
          ~RectangleToRectangle(CircleBounds(spawn.x, spawn.y, spawn.radius), getBounds(r))

\* C10: findSpawnPosition makes at most 30 draws; it returns no position
\* exactly after 30 failed draws, the routine then skips the entity and goes
\* on with its loop, and every routine that was called returns.
C10_SpawnTerminates ==
  /\ [](spawn.attempt <= 30)
  /\ []((spawn.pc = "place" /\ spawn.result = "none") => spawn.attempt = 30)
  /\ [][(spawn.pc = "place" /\ spawn.result = "none") =>
          /\ arena' = arena
          /\ spawn'.pc = "loop"
          /\ spawn'.left = spawn.left - 1]_vars
  /\ (spawn.pc # "idle") ~> (spawn.pc = "idle")

\* Thirty draws failed and the second entity of the routine is still to come.
C10_Witness ==
  /\ spawn.pc = "place"
  /\ spawn.result = "none"
  /\ spawn.attempt = MAX_SPAWN_ATTEMPTS
  /\ spawn.left = 2

\* ------------------------------------------------------------------------
\* Pursuit rounds (Spec)
\* ------------------------------------------------------------------------
\* The chaser of the round.
Chaser == CHOOSE c \in PlayerIds : players[c].role = "chaser"

\* C11 as stated: in a pursuit round the chaser's score is at chaserTagGoal
\* or above only when the chaser has been recorded as the winner for reason
\* 'tag' and the mode timer is cancelled; so no round in which the score
\* reached the goal has a 'timer' win.
C11_GoalScoreWinsByTag ==
  (settings.mode = "pursuit" /\ players[Chaser].score >= settings.chaserTagGoal) =>
     /\ roundOver
     /\ lastWin.winner = Chaser
     /\ lastWin.reason = "tag"
     /\ modeTimer = NoTimer

\* The part of C11 that holds: in an active pursuit round a step that lifts
\* the chaser's score to chaserTagGoal or above (a tag) records the chaser
\* as the winner for reason 'tag' and cancels the mode timer; from then
\* until the restart the recorded win stays that tag win and the timer stays
\* cancelled.
C11_TagGoalWinsByTag ==
  [][/\ \A p \in PlayerIds :
          (/\ settings.mode = "pursuit"
           /\ ~roundOver
           /\ rounds' = rounds
           /\ players[p].role = "chaser"
           /\ players'[p].score > players[p].score
           /\ players'[p].score >= settings.chaserTagGoal)
          => /\ roundOver'
             /\ lastWin'.winner = p
             /\ lastWin'.reason = "tag"
             /\ matchWins'[p] = matchWins[p] + 1
             /\ modeTimer' = NoTimer
             /\ modeTimerExpiresAt' = NoTimer
     /\ (roundOver /\ lastWin.reason = "tag" /\ rounds' = rounds)
          => /\ lastWin'.reason = "tag"
             /\ lastWin'.winner = lastWin.winner
             /\ modeTimer' = NoTimer
             /\ matchWins' = matchWins]_vars

\* A timed pursuit round was won by a tag, and the clock has since passed
\* the moment the timer was set for.
C11_Witness ==
  /\ settings.mode = "pursuit"
  /\ settings.modeTimerSeconds > 0
  /\ roundOver
  /\ lastWin.reason = "tag"
  /\ players[lastWin.winner].role = "chaser"
  /\ now >= settings.modeTimerSeconds * 1000
  /\ modeTimer = NoTimer

\* C12: in a pursuit round with modeTimerSeconds > 0 the timer is pending
\* while the round is active, and the frame in which it elapses with the
\* round still active records the collector as the winner for reason
\* 'timer'; with modeTimerSeconds = 0 no timer is ever pending and no win
\* has reason 'timer'.
C12_TimerGivesCollectorWin ==
  /\ [][(/\ settings.mode = "pursuit"
         /\ ~roundOver
         /\ rounds' = rounds
         /\ modeTimer # NoTimer
         /\ now' >= modeTimer)
        => /\ roundOver'
           /\ lastWin'.reason = "timer"
           /\ lastWin'.winner \in PlayerIds
           /\ players'[lastWin'.winner].role = "collector"
           /\ matchWins'[lastWin'.winner] = matchWins[lastWin'.winner] + 1]_vars
  /\ []((settings.mode = "pursuit" /\ settings.modeTimerSeconds > 0 /\ ~roundOver)
          => /\ modeTimer # NoTimer
             /\ modeTimer > now)
  /\ [](settings.modeTimerSeconds = 0
          => /\ modeTimer = NoTimer
             /\ modeTimerExpiresAt = NoTimer
             /\ lastWin.reason # "timer")

\* The timer ran out on an active round: the collector holds a timer win.
C12_Witness ==
  /\ settings.mode = "pursuit"
  /\ roundOver
  /\ lastWin.reason = "timer"
  /\ players[lastWin.winner].role = "collector"
  /\ now >= settings.modeTimerSeconds * 1000
  /\ matchWins[lastWin.winner] = 1

\* C13: in every state of a pursuit round, from its setup to the restart,
\* one of the two players is the chaser and the other is the collector.
C13_OneChaserOneCollector ==
  settings.mode = "pursuit" =>
    \E c \in PlayerIds :
      /\ players[c].role = "chaser"
      /\ players[Opponent(c)].role = "collector"

\* A second pursuit round has been decided, with the second bound player
\* as its chaser.
C13_Witness ==
  /\ settings.mode = "pursuit"
  /\ rounds > 1
  /\ roundOver
  /\ players[PlayerOrder[2]].role = "chaser"
  /\ players[PlayerOrder[1]].role = "collector"

\* ------------------------------------------------------------------------
\* Chaser alternation (SpecRoles)
\* ------------------------------------------------------------------------
\* C14: the first pursuit round of a scene has the first bound player as
\* chaser; every later pursuit round has as chaser the player who was the
\* collector in the pursuit round before it, whether or not rounds of
\* another mode lie between the two.  lastChaserId names the chaser of the
\* latest pursuit round ("none" before the first) and changes only when a
\* pursuit round is set up.
C14_ChaserAlternates ==
  /\ []((settings.mode = "pursuit") => /\ lastChaserId \in PlayerIds
                                       /\ players[lastChaserId].role = "chaser")
  /\ []((rounds = 1 /\ settings.mode = "pursuit") => lastChaserId = PlayerOrder[1])
  /\ []((rounds = 1 /\ settings.mode # "pursuit") => lastChaserId = "none")
  /\ [][/\ (rounds' = rounds) => lastChaserId' = lastChaserId
        /\ (rounds' # rounds /\ settings'.mode # "pursuit") => lastChaserId' = lastChaserId
        /\ (rounds' # rounds /\ settings'.mode = "pursuit") =>
              lastChaserId' = IF lastChaserId = "none" THEN PlayerOrder[1]
                              ELSE Opponent(lastChaserId)
        /\ (rounds' # rounds /\ settings.mode = "pursuit" /\ settings'.mode = "pursuit") =>
              \A p \in PlayerIds : players'[p].role # players[p].role]_vars

\* Both players have won a round by tags, which only a chaser can, and the
\* first bound player is the chaser again.
C14_Witness ==
  /\ settings.mode = "pursuit"
  /\ ~roundOver
  /\ players[PlayerOrder[1]].role = "chaser"
  /\ matchWins[PlayerOrder[1]] >= 1
  /\ matchWins[PlayerOrder[2]] >= 1

\* ------------------------------------------------------------------------
\* Orbs in pursuit rounds (SpecOrbs)
\* ------------------------------------------------------------------------
\* The orbs of a kind that are in the arena before the step and not after.
Gone(kind) == {r \in arena : r.kind = kind} \ arena'

\* C15: in a pursuit round the chaser's score changes only by a tag (by 1,
\* with every orb left in place); an orb disappears only in a step that
\* adds 1 (energy) or 3 (rare energy) to the collector's score and leaves
\* the chaser's score alone, and the collector's score changes in no other
\* way.
C15_OnlyCollectorTakesOrbs ==
  [][(settings.mode = "pursuit" /\ rounds' = rounds) =>
       \A p \in PlayerIds :
         /\ (players[p].role = "chaser" /\ players'[p].score # players[p].score)
              => /\ players'[p].score = players[p].score + 1
                 /\ tagCooldowns'[p] # tagCooldowns[p]
                 /\ arena' = arena
         /\ (players[p].role = "chaser" /\ Gone("energy") \cup Gone("rareEnergy") # {})
              => players'[p].score = players[p].score
         /\ (players[p].role = "collector" /\ Gone("energy") # {})
              => /\ players'[p].score = players[p].score + 1
                 /\ Cardinality(Gone("energy")) = 1
                 /\ Gone("rareEnergy") = {}
         /\ (players[p].role = "collector" /\ Gone("rareEnergy") # {})
              => /\ players'[p].score = players[p].score + 3
                 /\ Cardinality(Gone("rareEnergy")) = 1
                 /\ Gone("energy") = {}
         /\ (players[p].role = "collector" /\ players'[p].score # players[p].score)
              => Gone("energy") \cup Gone("rareEnergy") # {}]_vars

\* The collector has taken one energy orb and one rare orb, the chaser has
\* no point, and both orbs have been replaced at other positions.
C15_Witness ==
  /\ settings.mode = "pursuit"
  /\ ~roundOver
  /\ \E c \in PlayerIds :
       /\ players[c].role = "collector"
       /\ players[c].score = 4
       /\ players[Opponent(c)].score = 0
  /\ \E r \in arena : r.kind = "energy" /\ r \notin InitialOrbs
  /\ \E r \in arena : r.kind = "rareEnergy" /\ r \notin InitialOrbs

\* ------------------------------------------------------------------------
\* Duel rounds (SpecDuel)
\* ------------------------------------------------------------------------
\* C16: in duel mode every player's health stays within 0..maxHealth, for
\* projectile damage 1 and 3, through projectile hits, hazard hits and
\* reserve-core upgrades applied at round setup.
C16_HealthBounded ==
  settings.mode = "shooting" =>
    \A p \in PlayerIds :
      /\ 0 <= players[p].health
      /\ players[p].health <= players[p].maxHealth

\* A player who spent on an upgrade that was applied at the setup of a later
\* round has been hit for more than the health that was left.
C16_Witness ==
  /\ settings.mode = "shooting"
  /\ settings.projectileDamage > settings.shootingHealth
  /\ rounds > 1
  /\ \E p \in PlayerIds :
       /\ players[p].health = 0
       /\ balances[p].totalEarned > balances[p].balance
       /\ balances[p].queuedUpgrades = <<>>

\* C17: in an active duel round a step that takes a player's health from
\* above 0 to 0 records the other player as the winner in that step, and a
\* duel round is only ever over with the loser's health at 0 (a round that is
\* already over is not decided again by a later hit).
C17_ZeroHealthEndsRound ==
  /\ [][(settings.mode = "shooting" /\ rounds' = rounds) =>
          /\ \A p \in PlayerIds :
               (~roundOver /\ players[p].health > 0 /\ players'[p].health = 0)
               => /\ roundOver'
                  /\ lastWin'.winner = Opponent(p)
                  /\ matchWins'[Opponent(p)] = matchWins[Opponent(p)] + 1
                  /\ matchWins'[p] = matchWins[p]
          /\ WinStep => players'[Opponent(lastWin'.winner)].health = 0]_vars
  /\ []((settings.mode = "shooting" /\ roundOver)
          => \E p \in PlayerIds : players[p].health = 0)
  /\ []((settings.mode = "shooting" /\ \A p \in PlayerIds : players[p].health > 0)
          => ~roundOver)

\* A duel round was decided by the second of two single-damage hits on the
\* loser, after the winner had taken one hit.
C17_Witness ==
  /\ settings.mode = "shooting"
  /\ settings.projectileDamage = 1
  /\ roundOver
  /\ lastWin.late = 0
  /\ players[lastWin.winner].health = players[lastWin.winner].maxHealth - 1
  /\ players[Opponent(lastWin.winner)].health = 0

\* ------------------------------------------------------------------------
\* Tethers (SpecTether)
\* ------------------------------------------------------------------------
\* A frame of the running round; frame' holds its hook keys and distance.
FrameStep == now' > now /\ rounds' = rounds

\* One of the four conditions under which attemptHook returns early holds
\* for shooter p in this frame.  update() does not end a round, so the round
\* is over when attemptHook runs exactly if it is over after the frame.
HookFails(p) ==
  \/ roundOver'
  \/ now' - hookTimers[p] < HOOK_COOLDOWN
  \/ players[p].hookCharges = 0
  \/ frame'.distance > HOOK_RANGE

\* C18: in a frame in which the round is over, less than HOOK_COOLDOWN has
\* passed since the shooter's cooldown timestamp, the shooter has no charge
\* or the other player is farther than HOOK_RANGE, the shooter's charges and
\* cooldown timestamp stay as they are and the shooter gets no new tether
\* (a tether the shooter already has stays, or is released by updateHooks).
C18_FailedHookIsNoOp ==
  [][FrameStep =>
       \A p \in PlayerIds :
         HookFails(p) =>
           /\ players'[p].hookCharges = players[p].hookCharges
           /\ hookTimers'[p] = hookTimers[p]
           /\ activeHooks'[p] \in {activeHooks[p], NoHook}]_vars

\* The hook key went down in range and after the cooldown, for a shooter
\* who had fired every charge: nothing came of it.
C18_Witness ==
  /\ ~roundOver
  /\ \E p \in PlayerIds :
       /\ p \in frame.keys
       /\ frame.distance <= HOOK_RANGE
       /\ players[p].hookCharges = 0
       /\ hookTimers[p] > 0
       /\ now - hookTimers[p] >= HOOK_COOLDOWN
       /\ activeHooks[p] = NoHook

\* C19: a frame in which the shooter's hook key went down and none of the
\* four conditions holds takes exactly one charge, sets the shooter's
\* cooldown timestamp to the frame's time and leaves the shooter's entry with
\* a tether on the other player that expires HOOK_DURATION later (updateHooks
\* releases it in that same frame when the players are closer than
\* HOOK_BREAK_DISTANCE); the tether objects alive are always exactly those of
\* the entries, so an earlier tether of the shooter is gone.
C19_SuccessfulHook ==
  /\ [][(FrameStep /\ settings.mode # "shooting") =>
          \A p \in PlayerIds :
            (p \in frame'.keys /\ ~HookFails(p)) =>
              /\ players'[p].hookCharges = players[p].hookCharges - 1
              /\ hookTimers'[p] = now'
              /\ \/ activeHooks'[p] = [target |-> Opponent(p),
                                        expires |-> now' + HOOK_DURATION]
                 \/ /\ frame'.distance < HOOK_BREAK_DISTANCE
                    /\ activeHooks'[p] = NoHook]_vars
  /\ [](tethers = Cardinality({p \in PlayerIds : activeHooks[p] # NoHook}))

\* A shooter's second hook: two charges are gone and one tether is alive.
C19_Witness ==
  \E p \in PlayerIds :
    /\ activeHooks[p] = [target |-> Opponent(p), expires |-> now + HOOK_DURATION]
    /\ hookTimers[p] = now
    /\ players[p].hookCharges = players[p].maxHookCharges - 2
    /\ activeHooks[Opponent(p)] = NoHook
    /\ tethers = 1

\* C20: while the round is over no entry of activeHooks holds a tether and
\* no tether object is alive: the step that records the win releases them
\* all, and no frame before the restart creates one.
C20_NoTetherWhenRoundOver ==
  roundOver =>
    /\ \A p \in PlayerIds : activeHooks[p] = NoHook
    /\ tethers = 0

\* In the last frame of a round that is over, the hook key of a player with
\* charges went down in range and after the cooldown.
C20_Witness ==
  /\ roundOver
  /\ \E p \in PlayerIds :
       /\ p \in frame.keys
       /\ frame.distance <= HOOK_RANGE
       /\ frame.distance >= HOOK_BREAK_DISTANCE
       /\ players[p].hookCharges > 0
       /\ hookTimers[p] > 0
       /\ now - hookTimers[p] >= HOOK_COOLDOWN

\* ------------------------------------------------------------------------
\* Cloak and harmful objects (SpecCloak)
\* ------------------------------------------------------------------------
\* C21: in every mode, a step in which the hazard handler ran for a player
\* whose active effect was cloak leaves the hazard in the arena and leaves
\* that player's score and health as they were.
C21_CloakedHazardUntouched ==
  [][\A p \in PlayerIds :
       (touch'.player = p /\ touch'.kind = "hazard" /\ isPlayerCloaked(players[p]))
         => /\ arena' = arena
            /\ players'[p].score = players[p].score
            /\ players'[p].health = players[p].health]_vars

\* The hazard handler ran last, for a player who is cloaked, and the hazard
\* is still there.
C21_Witness ==
  /\ touch.kind = "hazard"
  /\ touch.player \in PlayerIds
  /\ isPlayerCloaked(players[touch.player])
  /\ \E r \in arena : r.kind = "hazard"

\* C22 as stated: while player p is cloaked, a slow or disrupt pickup p
\* touches stays in the arena, a disrupt pickup the opponent takes leaves p's
\* speed multiplier and cloak as they were, and a skull p touches does not
\* give the round to the opponent.
C22_CloakedNegativePickupsIgnored ==
  [][\A p \in PlayerIds :
       isPlayerCloaked(players[p]) =>
         /\ (touch'.player = p /\ touch'.kind = "behavior"
               /\ touch'.effect \in {"slow", "disrupt"})
              => arena' = arena
         /\ (touch'.player = Opponent(p) /\ touch'.kind = "behavior"
               /\ touch'.effect = "disrupt")
              => /\ players'[p].speedMultiplier = players[p].speedMultiplier
                 /\ isPlayerCloaked(players'[p])
         /\ (touch'.player = p /\ touch'.kind = "skull")
              => ~(~roundOver /\ roundOver' /\ lastWin'.winner = Opponent(p))]_vars

\* ------------------------------------------------------------------------
\* The currency ledger (SpecLedger)
\* ------------------------------------------------------------------------
\* C23: a spendCurrency call whose upgrade id is not in the catalog, or whose
\* player has a balance below the upgrade's cost, returns false and leaves
\* the player's ledger entry (balance, totalEarned, recentEarnings, queued
\* upgrades) as it was.
C23_FailedSpendChangesNothing ==
  [][\A p \in PlayerIds :
       (/\ audit'.call.op = "spend"
        /\ audit'.call.player = p
        /\ \/ audit'.call.upgrade \notin UpgradeIds
           \/ balances[p].balance < UPGRADE_CATALOG[audit'.call.upgrade])
         => /\ audit'.call.ok = FALSE
            /\ balances'[p] = balances[p]]_vars

\* The last call was a spend for a catalog upgrade the player could not
\* afford, while the entry showed recent earnings.
C23_Witness ==
  /\ audit.call.op = "spend"
  /\ ~audit.call.ok
  /\ audit.call.upgrade \in UpgradeIds
  /\ balances[audit.call.player].balance > 0
  /\ balances[audit.call.player].recentEarnings > 0

\* C24: in every reachable ledger state each player's balance is zero or
\* more and equals totalEarned minus the summed cost of the upgrades the
\* player has bought; and no step lowers totalEarned.
C24_BalanceIsEarnedMinusSpent ==
  /\ [](\A p \in PlayerIds :
          /\ balances[p].balance >= 0
          /\ balances[p].balance = balances[p].totalEarned - audit.spent[p])
  /\ [][\A p \in PlayerIds : balances'[p].totalEarned >= balances[p].totalEarned]_vars

\* A player has bought upgrades, had them pulled, and still holds currency.
C24_Witness ==
  \E p \in PlayerIds :
    /\ audit.spent[p] >= 2
    /\ balances[p].balance > 0
    /\ balances[p].queuedUpgrades = <<>>
    /\ audit.call.op = "pull"

\* How often upgrade u occurs in the sequence q.
Count(q, u) == Cardinality({i \in DOMAIN q : q[i] = u})

\* C25: the queue holds, in purchase order, the upgrades bought since the
\* last round was set up; setting up a round empties it and gives each
\* player exactly the effects of the upgrades that were in it (so a round
\* set up without new purchases gives none).
C25_UpgradesAppliedOnce ==
  /\ [](\A p \in PlayerIds : balances[p].queuedUpgrades = audit.bought[p])
  /\ [][rounds' = rounds + 1 =>
          \A p \in PlayerIds :
            /\ balances'[p].queuedUpgrades = <<>>
            /\ players'[p].speedMultiplier =
                 BASE_MULTIPLIER + AFTERBURNER_STEP * Count(audit.bought[p], "afterburner")
            /\ players'[p].maxHookCharges =
                 (IF settings'.mode = "shooting" THEN 0 ELSE MAX_HOOK_CHARGES)
                   + Count(audit.bought[p], "hook-stock")
            /\ settings'.mode # "shooting" =>
                 players'[p].score = Count(audit.bought[p], "reserve-core")]_vars

\* A classic round was just set up with a player at the base values, two
\* rounds or more after the first, and that player has bought two upgrades
\* before: they were applied to an earlier round.
C25_Witness ==
  \E p \in PlayerIds :
    /\ audit.call.op = "pull"
    /\ rounds >= 3
    /\ settings.mode = "classic"
    /\ audit.spent[p] >= 4
    /\ players[p].speedMultiplier = BASE_MULTIPLIER
    /\ players[p].maxHookCharges = MAX_HOOK_CHARGES
    /\ players[p].score = 0

\* ------------------------------------------------------------------------
\* Hazards of a minefield round (SpecMine)
\* ------------------------------------------------------------------------
\* C30 as stated: a minefield round is set up with spawnHazards entered for
\* three times the configured hazardCount.
C30_MinefieldTriplesHazards ==
  [][(rounds' = rounds + 1 /\ settings'.mode = "minefield")
       => spawn'.left = 3 * settings'.hazardCount]_vars

\* C30 amended: a minefield round is set up with spawnHazards entered for
\* the larger of three times hazardCount and hazardCount plus four, which is
\* three times hazardCount when hazardCount is 2 or more; any other round
\* is set up for hazardCount hazards.
C30_MinefieldHazardTarget ==
  [][rounds' = rounds + 1 =>
       /\ spawn'.kind = "hazard"
       /\ settings'.mode = "minefield" =>
            /\ spawn'.left = Max(3 * settings'.hazardCount, settings'.hazardCount + 4)
            /\ settings'.hazardCount >= 2 => spawn'.left = 3 * settings'.hazardCount
       /\ settings'.mode # "minefield" => spawn'.left = settings'.hazardCount]_vars

\* A minefield round was set up from the menu with hazardCount 1 and
\* spawnHazards stands at the head of its loop for five hazards.
C30_Witness ==
  /\ rounds >= 2
  /\ settings.mode = "minefield"
  /\ settings.hazardCount = 1
  /\ spawn.kind = "hazard"
  /\ spawn.pc = "loop"
  /\ spawn.left = 5

InputSettings ==
  {MkSettings("classic", ShallowThreshold, DefaultTagGoal, 0, DefaultDamage),
   MkSettings("shooting", DefaultThreshold, DefaultTagGoal, 0, DefaultDamage)}

InputSteps == {100, 900}
InputDistances == {200, 500}
GlueDraws == {0, 1}
NoKeys == [id \in PlayerIds |-> {}]
NoOverlaps == [id \in PlayerIds |-> {}]
\* The keys explored: each key alone, a dash with its direction key, or
\* all keys, for the player who plays; the other player stands by.
KeyChoices == {{}, KeyNames, {"move", "dash"}} \cup {{k} : k \in KeyNames}
KeyHolders == {"p1"}
Pads == {pad \in [PlayerIds -> KeyChoices] :
           \A p \in PlayerIds \ KeyHolders : pad[p] = {}}
\* The numbers drawn for glue zone ids, where the ids play no part.
SameDraws == {[id \in PlayerIds |-> 0]}

\* S1 is the scene after S0 handled an input: the input is noted, and
\* whether the round was over when it came; the keys are noted if it was.
NoteInput(S0, S1, event, player, pad, over) ==
  [S1 EXCEPT !.input = [event |-> event, player |-> player, late |-> S0.roundOver,
                        keys |-> IF S0.roundOver THEN pad ELSE NoKeys,
                        over |-> over]]

\* S1 is the scene after something else than an input was handled.
Quiet(S1) == [S1 EXCEPT !.input = NoInput]

InitInput ==
  /\ \E s \in InputSettings : Start(create(NewScene, s))
  /\ arena = NoArena
  /\ spawn = NoSpawn

\* A frame shorter than a dash is explored while a dash is in progress.
InputFrame ==
  \E d \in InputSteps, pad \in Pads, distance \in InputDistances,
     draws \in SameDraws :
    /\ now + d <= MaxInputNow
    /\ d < DASH_DURATION => \E p \in PlayerIds : dashState[p] > now
    /\ Commit(NoteInput(Scene, runFrame(Scene, d, pad, NoOverlaps, distance, draws, TRUE),
                        "frame", "none", pad, NoOverlaps))
    /\ UNCHANGED spawnVars

\* The overlay dispatches its power event for player p.
OverlayPower ==
  \E p \in PlayerIds, draws \in SameDraws :
    /\ Commit(NoteInput(Scene, overlayPowerHandler(Scene, p, draws[p]),
                        "overlay", p, NoKeys, NoOverlaps))
    /\ UNCHANGED spawnVars

PowerOverlap ==
  \E p \in KeyHolders :
    /\ powerPickups > 0
    /\ Commit(Quiet(powerOverlap(Scene, p)))
    /\ UNCHANGED spawnVars

InputSkull ==
  \E p \in PlayerIds :
    /\ settings.mode # "shooting"
    /\ Commit(Quiet(skullOverlap(Scene, p)))
    /\ UNCHANGED spawnVars

InputBolt ==
  \E p \in PlayerIds :
    /\ settings.mode = "shooting"
    /\ Commit(Quiet(projectileOverlap(Scene, p)))
    /\ UNCHANGED spawnVars

InputAcknowledge ==
  \E p \in PlayerIds :
    /\ upgradeModal.open
    /\ p \notin upgradeModal.acknowledged
    /\ (upgradeModal.acknowledged \cup {p} = PlayerIds => rounds < MaxRounds)
    /\ Commit(Quiet(handleAcknowledged(Scene, p)))
    /\ UNCHANGED spawnVars

NextInput ==
  \/ InputFrame
  \/ OverlayPower
  \/ PowerOverlap
  \/ InputSkull
  \/ InputBolt
  \/ InputAcknowledge

SpecInput == InitInput /\ [][NextInput]_vars

\* The zones of the primed state were all there before the step.
NoZoneAdded ==
  \A i \in 1..Len(surfaceZones') : \E j \in 1..Len(surfaceZones) :
    surfaceZones[j] = surfaceZones'[i]

\* C26: while the round is over, activating a power, by the power key in a
\* frame or by the overlay's power event, changes nothing: the player keeps
\* the held power and no glue zone is created.
C26_PowerIgnoredAfterRound ==
  [][(roundOver /\ input'.event \in {"frame", "overlay"} /\ rounds' = rounds)
       => /\ \A p \in PlayerIds : players'[p].carriedPower = players[p].carriedPower
          /\ NoZoneAdded]_vars

\* C27: in a frame that starts with the round over, every player's velocity
\* is set to zero and no dash, hook, shot or key-triggered power is started,
\* whatever keys are down.
C27_NoActionAfterRound ==
  [][(roundOver /\ input'.event = "frame" /\ rounds' = rounds)
       => /\ \A p \in PlayerIds :
               /\ players'[p].velocity = 0
               /\ players'[p].carriedPower = players[p].carriedPower
               /\ players'[p].hookCharges = players[p].hookCharges
               /\ activeHooks'[p] = NoHook
          /\ dashState' = dashState
          /\ lastDash' = lastDash
          /\ hookTimers' = hookTimers
          /\ projectileCooldowns' = projectileCooldowns
          /\ NoZoneAdded]_vars

\* A frame came with every key of the first player down, after the round
\* was decided and while that player held a power.
C27_Witness ==
  /\ roundOver
  /\ input.event = "frame"
  /\ input.late
  /\ input.keys["p1"] = KeyNames
  /\ players["p1"].carriedPower = "glue"
  /\ players["p1"].hookCharges > 0

\* ------------------------------------------------------------------------
\* Walking over surface zones
\* ------------------------------------------------------------------------
SurfaceSettings ==
  {[MkSettings("classic", ShallowThreshold, DefaultTagGoal, 0, DefaultDamage)
      EXCEPT !.levelId = "rink"]}

SurfaceSteps == {2000}
PowerPads == {pad \in Pads : \A p \in PlayerIds : pad[p] \subseteq {"power"}}
ZoneIds(S) == {S.surfaceZones[i].id : i \in 1..Len(S.surfaceZones)}
\* The zones the player who plays may stand on; the other player is on none.
Overlaps(S) == {over \in [PlayerIds -> SUBSET ZoneIds(S)] :
                  \A p \in PlayerIds \ KeyHolders : over[p] = {}}

RECURSIVE StillOn(_, _)
StillOn(batches, on) ==
  IF batches = <<>> THEN <<>>
  ELSE IF Head(batches) \cap on = {} THEN StillOn(Tail(batches), on)
  ELSE <<Head(batches) \cap on>> \o StillOn(Tail(batches), on)

\* S1 is the scene after a frame of S0 in which each player's bounds
\* intersected the zones of over: per player the zones still overlapped are
\* kept in the order they were entered, and those entered in this frame are
\* added last.
NoteSurface(S0, S1, over) ==
  [S1 EXCEPT !.entered = [p \in PlayerIds |->
     LET on == {id \in over[p] : \E i \in 1..Len(S0.surfaceZones) :
                  /\ S0.surfaceZones[i].id = id
                  /\ ~Expired(S1, S0.surfaceZones[i])}
         kept == StillOn(S0.entered[p], on)
         fresh == on \ UNION {S0.entered[p][i] : i \in 1..Len(S0.entered[p])}
     IN IF fresh = {} THEN kept ELSE Append(kept, fresh)]]

InitSurface ==
  /\ \E s \in SurfaceSettings : Start(create(NewScene, s))
  /\ arena = NoArena
  /\ spawn = NoSpawn

SurfaceFrame ==
  \E d \in SurfaceSteps, pad \in PowerPads, over \in Overlaps(Scene),
     draws \in [PlayerIds -> GlueDraws] :
    /\ now + d <= MaxSurfaceNow
    /\ Commit(NoteSurface(Scene,
                NoteInput(Scene, runFrame(Scene, d, pad, over, HOOK_RANGE + 1, draws, TRUE),
                          "frame", "none", pad, over),
                over))
    /\ UNCHANGED spawnVars

NextSurface ==
  \/ SurfaceFrame
  \/ PowerOverlap
  \/ OverlayPower

SpecSurface == InitSurface /\ [][NextSurface]_vars

\* The multipliers of the zones a player entered last among those the
\* player's bounds intersect.
LatestMultipliers(p) ==
  {surfaceZones[i].multiplier :
     i \in {j \in 1..Len(surfaceZones) :
              surfaceZones[j].id \in entered[p][Len(entered[p])]}}

\* C28: after a frame, a player who overlaps surface zones has the speed
\* multiplier of the overlapped zone entered most recently, and a player who
\* overlaps none has multiplier 1.
C28_LatestEnteredZoneRules ==
  input.event = "frame" =>
    \A p \in PlayerIds :
      IF entered[p] = <<>>
      THEN players[p].surfaceMultiplier = BASE_MULTIPLIER
      ELSE players[p].surfaceMultiplier \in LatestMultipliers(p)

\* ------------------------------------------------------------------------
\* Scores and health after the round is decided (Spec)
\* ------------------------------------------------------------------------

\* C33: once the round is over, no step before the restart changes a
\* player's score or health: an orb, hazard or projectile that overlaps a
\* player after the win leaves both unchanged.  The pickup handlers and
\* damageShields change the score (and the health) without looking at
\* roundOver, so an overlap delivered after the win still does.
C33_ScoreFrozenAfterRound ==
  [][(roundOver /\ rounds' = rounds) =>
        \A p \in PlayerIds :
          /\ players'[p].score = players[p].score
          /\ players'[p].health = players[p].health]_vars

\* ------------------------------------------------------------------------
\* Lifetime of a timed effect (SpecFx)
\* ------------------------------------------------------------------------

\* C32: a timed effect stays active until its own expiry unless a newer
\* effect replaces it on that player: in a step of one round that applies no
\* effect to the player and ends before the active effect's expiry, the
\* active effect and the speed multiplier stay as they are.  The reset timer
\* of a boost or slow that a cloak replaced stays pending, and its callback
\* clears the cloak when it fires.
C32_EffectLastsItsDuration ==
  [][\A p \in PlayerIds :
       (/\ rounds' = rounds
        /\ applied'[p] = applied[p]
        /\ players[p].activeEffect.type # "none"
        /\ now' < players[p].activeEffect.expires) =>
          /\ players'[p].activeEffect = players[p].activeEffect
          /\ players'[p].speedMultiplier = players[p].speedMultiplier]_vars

\* ------------------------------------------------------------------------
\* Tags of a pursuit round (SpecChase)
\* ------------------------------------------------------------------------

\* C34: a pursuit round that ended with reason 'tag' is one in which the
\* chaser registered at least chaserTagGoal tags, whatever upgrades the
\* chaser had queued.  The win is decided on the chaser's score, and a
\* queued Reserve Core puts that score at 1 before the first tag.
C34_TagWinNeedsGoalTags ==
  (settings.mode = "pursuit" /\ roundOver /\ lastWin.reason = "tag") =>
     tags.count >= settings.chaserTagGoal

\* ------------------------------------------------------------------------
\* Specification of the tag cooldown: pursuit rounds in half-cooldown frames
\* ------------------------------------------------------------------------
TagSteps == {450}

TagSettings == {MkSettings("pursuit", DefaultThreshold, 3, 0, DefaultDamage)}

InitTag ==
  /\ \E s \in TagSettings : Start(create(NewScene, s))
  /\ arena = NoArena
  /\ spawn = NoSpawn

TagTick ==
  \E d \in TagSteps :
    /\ now + d <= MaxTagNow
    /\ Commit(tick(Scene, d, {}, HOOK_RANGE + 1))
    /\ UNCHANGED spawnVars

NextTag ==
  \/ TagCollision
  \/ TagTick
  \/ EnergyOverlap
  \/ HazardOverlap
  \/ Acknowledge

SpecTag == InitTag /\ [][NextTag]_vars

\* C35: within a round two registered tags are at least TAG_COOLDOWN apart;
\* while the chaser's cooldown runs no step registers a tag, raises the
\* chaser's score or moves the cooldown; and a registered tag raises the
\* chaser's score by exactly 1 and leaves the collector's score unchanged.
C35_TagCooldown ==
  [][(settings.mode = "pursuit" /\ rounds' = rounds) =>
        /\ (tags'.count # tags.count /\ tags.last # NoTimer) =>
              now - tags.last >= TAG_COOLDOWN
        /\ (~roundOver /\ tagCooldowns[Chaser] > now) =>
              /\ tags'.count = tags.count
              /\ players'[Chaser].score <= players[Chaser].score
              /\ tagCooldowns' = tagCooldowns
        /\ tags'.count # tags.count =>
              /\ tags'.count = tags.count + 1
              /\ players'[Chaser].score = players[Chaser].score + 1
              /\ players'[Opponent(Chaser)].score = players[Opponent(Chaser)].score]_vars

\* A second tag was registered in a round in which a collision was refused
\* during the cooldown.
C35_Witness ==
  /\ settings.mode = "pursuit"
  /\ tags.count >= 2
  /\ tags.refused
  /\ tags.last >= TAG_COOLDOWN

\* ------------------------------------------------------------------------
\* Specification of the tether's life: frames shorter than HOOK_DURATION
\* ------------------------------------------------------------------------
BreakSteps == {160, 1800}

BreakTick ==
  \E d \in BreakSteps, hookKeys \in SUBSET PlayerIds, distance \in Distances :
    /\ now + d <= MaxBreakNow
    /\ Commit(NoteFrame(tick(Scene, d, hookKeys, distance), hookKeys, distance))
    /\ UNCHANGED spawnVars

NextBreak ==
  \/ BreakTick
  \/ SkullOverlap

SpecBreak == InitTether /\ [][NextBreak]_vars

\* C36: after every frame no tether is left whose expiry is at or before
\* the clock or whose players are closer than HOOK_BREAK_DISTANCE, and a
\* tether that is neither, in a round that is not over, is still active
\* after the frame with the expiry it had.
C36_TetherReleasedWhenDue ==
  /\ [][\A p \in PlayerIds :
          /\ activeHooks'[p] # NoHook =>
               /\ activeHooks'[p].expires > now'
               /\ frame'.distance >= HOOK_BREAK_DISTANCE
          /\ (/\ activeHooks[p] # NoHook
              /\ ~roundOver'
              /\ activeHooks[p].expires > now'
              /\ frame'.distance >= HOOK_BREAK_DISTANCE) =>
               activeHooks'[p] = activeHooks[p]]_vars
  /\ [](tethers = Cardinality({p \in PlayerIds : activeHooks[p] # NoHook}))

\* A tether outlived a frame in which no hook key went down.
C36_Witness ==
  \E p \in PlayerIds :
    /\ activeHooks[p] # NoHook
    /\ frame.keys = {}
    /\ now > activeHooks[p].expires - HOOK_DURATION

\* ------------------------------------------------------------------------
\* Specification of the duel's fire rate: frames of half a cooldown
\* ------------------------------------------------------------------------
ShootSteps == {150}
ShootDistances == {0, 200, 400, 500}
ShootSettings == {MkSettings("shooting", DefaultThreshold, DefaultTagGoal, 0, 1)}
\* The first player holds the shoot key or not; the other stands by.
ShootPads == {pad \in [PlayerIds -> {{}, {"shoot"}}] :
                \A p \in PlayerIds \ KeyHolders : pad[p] = {}}

\* S1 is the scene after S0 ran a frame or a handler: a projectile was
\* fired for each player whose cooldown was set, a dash started for each
\* player whose lastDash was set; two stands for two or more.
NoteActs(S0, S1) ==
  IF S1.rounds # S0.rounds THEN S1
  ELSE [S1 EXCEPT !.acts = [p \in PlayerIds |->
          [shots |-> IF S1.projectileCooldowns[p] # S0.projectileCooldowns[p]
                     THEN Min(2, @[p].shots + 1) ELSE @[p].shots,
           dashes |-> IF S1.lastDash[p] # S0.lastDash[p]
                      THEN Min(2, @[p].dashes + 1) ELSE @[p].dashes]]]

ShootFrame ==
  \E d \in ShootSteps, pad \in ShootPads, distance \in ShootDistances :
    /\ now + d <= MaxShootNow
    /\ Commit(NoteActs(Scene,
         NoteFrame(runFrame(Scene, d, pad, NoOverlaps, distance, NoOverlaps, TRUE),
                   {p \in PlayerIds : "shoot" \in pad[p]}, distance)))
    /\ UNCHANGED spawnVars

InitShoot ==
  /\ \E s \in ShootSettings : Start(create(NewScene, s))
  /\ arena = NoArena
  /\ spawn = NoSpawn

NextShoot ==
  \/ ShootFrame
  \/ ProjectileOverlap
  \/ Acknowledge

SpecShoot == InitShoot /\ [][NextShoot]_vars

\* C37: in a duel round a step fires a projectile for a player only when
\* the round is not over, the player's previous projectile of the round was
\* fired at least projectileCooldownMs earlier and the other player is
\* within projectile range (and not on the same spot); the next one is then
\* ready projectileCooldownMs later.
C37_FireRate ==
  [][\A p \in PlayerIds :
       (rounds' = rounds /\ projectileCooldowns'[p] # projectileCooldowns[p]) =>
          /\ settings.mode = "shooting"
          /\ ~roundOver
          /\ now' >= projectileCooldowns[p]
          /\ projectileCooldowns'[p] = now' + settings.projectileCooldownMs
          /\ frame'.distance <= getProjectileRange(Scene)
          /\ frame'.distance > 0
          /\ p \in frame'.keys]_vars

\* A player fired a second projectile, one cooldown after the first, in a
\* round in which a frame at half a cooldown had gone by.
C37_Witness ==
  \E p \in PlayerIds :
    /\ acts[p].shots = 2
    /\ projectileCooldowns[p] = now + settings.projectileCooldownMs
    /\ now = 2 * settings.projectileCooldownMs

\* ------------------------------------------------------------------------
\* Specification of the dash: frames of a quarter of the cooldown
\* ------------------------------------------------------------------------
DashSteps == {100, 200, 600}
DashSettings == {MkSettings("classic", ShallowThreshold, DefaultTagGoal, 0, DefaultDamage)}
\* The first player's direction and dash keys; the other stands by.
DashPads == {pad \in [PlayerIds -> SUBSET {"move", "dash"}] :
               \A p \in PlayerIds \ KeyHolders : pad[p] = {}}

\* S1 is the scene after a frame in which the keys were pad.
NotePad(S1, pad) ==
  [S1 EXCEPT !.input = [event |-> "frame", player |-> "none", late |-> FALSE,
                        keys |-> pad, over |-> NoOverlaps]]

InitDash ==
  /\ \E s \in DashSettings : Start(create(NewScene, s))
  /\ arena = NoArena
  /\ spawn = NoSpawn

\* A frame shorter than a dash is explored while a dash is in progress.
DashFrame ==
  \E d \in DashSteps, pad \in DashPads :
    /\ now + d <= MaxDashNow
    /\ d < DASH_DURATION <=> \E p \in PlayerIds : dashState[p] > now
    /\ Commit(NoteActs(Scene,
         NotePad(runFrame(Scene, d, pad, NoOverlaps, HOOK_RANGE + 1, NoOverlaps, TRUE),
                 pad)))
    /\ UNCHANGED spawnVars

NextDash ==
  \/ DashFrame
  \/ InputSkull
  \/ InputAcknowledge

SpecDash == InitDash /\ [][NextDash]_vars

\* A step of the round in which player p's keys are read.
DashKeyRead(p) == rounds' = rounds /\ now' > now /\ "dash" \in input'.keys[p]

\* C40: a step starts a dash for a player only when the dash key goes down
\* with a direction held, the round not over, and DASH_COOLDOWN or more
\* since the player's previous dash of the round; the dash then lasts
\* DASH_DURATION.  A dash key that goes down on cooldown or with no
\* direction held leaves the last-dash timestamp as it is and starts no
\* dash: the dash state stays, or is dropped because it had run out.
C40_DashCooldown ==
  [][\A p \in PlayerIds :
       /\ (rounds' = rounds /\ lastDash'[p] # lastDash[p]) =>
            /\ ~roundOver
            /\ {"move", "dash"} \subseteq input'.keys[p]
            /\ now' - lastDash[p] >= DASH_COOLDOWN
            /\ lastDash'[p] = now'
            /\ dashState'[p] = now' + DASH_DURATION
       /\ (/\ DashKeyRead(p)
           /\ \/ now' - lastDash[p] < DASH_COOLDOWN
              \/ "move" \notin input'.keys[p]) =>
            /\ lastDash'[p] = lastDash[p]
            /\ \/ dashState'[p] = dashState[p]
               \/ dashState'[p] = NoTimer /\ dashState[p] <= now'
       /\ (rounds' = rounds /\ lastDash'[p] = lastDash[p]) =>
            \/ dashState'[p] = dashState[p]
            \/ dashState'[p] = NoTimer]_vars

\* A player started the second dash of a round one cooldown after the
\* first.
C40_Witness ==
  \E p \in PlayerIds :
    /\ acts[p].dashes = 2
    /\ lastDash[p] = now
    /\ lastDash[p] = 2 * DASH_COOLDOWN

\* ------------------------------------------------------------------------
\* Specification of the intermission: rounds of every mode, with the shop
\* ------------------------------------------------------------------------
NextRound ==
  \/ EnergyOverlap
  \/ ProjectileOverlap
  \/ SkullOverlap
  \/ TagCollision
  \/ Tick
  \/ SpendReserveCore
  \/ Acknowledge

SpecRound == Init /\ [][NextRound]_vars

\* The score a player created now would start the round with.
StartScore(p) ==
  applyQueuedUpgrades(createPlayer(0, "collector", BASE_MULTIPLIER, 0,
                                   settings.shootingHealth,
                                   settings.mode = "shooting"),
                      balances, p, settings.mode = "shooting").score

\* C38: the scene is set up again only in the step in which the last
\* player still missing acknowledges the open intermission of a round that
\* is over; that step closes the intermission and leaves no restart
\* pending, so there is one restart per win.  The new round is active, each
\* score is the starting score and the match win counts are those of
\* before.  The intermission is open exactly while the round is over, and
\* never with every player acknowledged.
C38_RestartOnAllAcknowledged ==
  /\ [][rounds' # rounds =>
          /\ rounds' = rounds + 1
          /\ roundOver
          /\ upgradeModal.open
          /\ Cardinality(upgradeModal.acknowledged) = Cardinality(PlayerIds) - 1
          /\ ~upgradeModal'.open
          /\ delayedCalls' = {}
          /\ ~roundOver'
          /\ matchWins' = matchWins
          /\ \A p \in PlayerIds :
               /\ players'[p].wins = matchWins[p]
               /\ players'[p].score = StartScore(p)]_vars
  /\ [](upgradeModal.open =>
          /\ roundOver
          /\ upgradeModal.acknowledged # PlayerIds)
  /\ [](roundOver => upgradeModal.open)

\* A second round is under way after a first that a player won and both
\* acknowledged, one of them with a Reserve Core bought in between.
C38_Witness ==
  /\ rounds = 2
  /\ ~roundOver
  /\ \E p \in PlayerIds : matchWins[p] = 1
  /\ \E p \in PlayerIds :
       /\ balances[p].balance < balances[p].totalEarned
       /\ players[p].score = 1

\* ------------------------------------------------------------------------
\* The overlap callbacks wired by create, each with the pickup it is given.
\* item: the pickup object (active until destroyed; a behavior pickup
\* carries its effect as data).  The result is the scene and the item after
\* the callback, and whether the callback went as far as its payload.
\* ------------------------------------------------------------------------
Destroyed == [active |-> FALSE, effect |-> "none"]
Handled(S, item, paid) == [S |-> S, item |-> item, paid |-> paid]

\* pickup.destroy(): an active member leaves its group.
destroyPickup(S, group, item) ==
  IF item.active THEN [S EXCEPT !.pickups[group] = @ - 1] ELSE S

\* A callback scheduled by a handler to respawn one pickup.
respawnCall(S, kind, p, delay, group) ==
  [S EXCEPT !.delayedCalls = @ \cup {[kind |-> kind, player |-> "none",
                                      at |-> S.now + delay,
                                      n |-> S.pickups[group]]}]

energyHandler(S, p, item, found) ==
  IF ~item.active \/ ~orbTaken(S, p) THEN Handled(S, item, FALSE)
  ELSE LET S1 == energyOverlap(destroyPickup(S, "energy", item), p)
       IN Handled(IF ~S1.roundOver THEN spawnEnergyOrbs(S1, 1, found) ELSE S1,
                  Destroyed, TRUE)

rareEnergyHandler(S, p, item, found) ==
  IF ~item.active \/ ~orbTaken(S, p) THEN Handled(S, item, FALSE)
  ELSE LET S1 == rareEnergyOverlap(destroyPickup(S, "rareEnergy", item), p)
       IN Handled(IF ~S1.roundOver THEN spawnRareEnergy(S1, 1, found) ELSE S1,
                  Destroyed, TRUE)

hazardHandler(S, p, item, found) ==
  IF ~item.active \/ isPlayerCloaked(S.players[p]) THEN Handled(S, item, FALSE)
  ELSE LET S1 == hazardOverlap(destroyPickup(S, "hazards", item), p)
       IN Handled(IF ~S1.roundOver THEN spawnHazards(S1, 1, found) ELSE S1,
                  Destroyed, TRUE)

\* The behavior handler does not look at item.active; a destroyed item has
\* no data, and the effect read from it is the default 'boost'.
behaviorHandler(S, p, item, found) ==
  LET effect == IF item.effect = "none" THEN "boost" ELSE item.effect
  IN IF isPlayerCloaked(S.players[p]) /\ effect \in {"slow", "disrupt"}
     THEN Handled(S, item, FALSE)
     ELSE Handled(spawnBehaviorPickups(
                    behaviorOverlap(destroyPickup(S, "behaviorPickups", item),
                                    p, effect),
                    1, found),
                  Destroyed, TRUE)

ropeHandler(S, p, item, found) ==
  IF ~item.active THEN Handled(S, item, FALSE)
  ELSE Handled(respawnCall(ropeOverlap(destroyPickup(S, "ropePickups", item), p),
                           "ropeRespawn", p, ROPE_RESPAWN_DELAY, "ropePickups"),
               Destroyed, TRUE)

powerHandler(S, p, item, found) ==
  IF ~item.active \/ S.players[p].carriedPower # "none"
  THEN Handled(S, item, FALSE)
  ELSE Handled(powerOverlap(S, p), Destroyed, TRUE)

\* teleportPlayer moves the body; the model carries no positions.
teleportHandler(S, p, item, found) ==
  IF ~item.active THEN Handled(S, item, FALSE)
  ELSE LET S1 == destroyPickup(S, "teleportPickups", item)
       IN Handled(IF ~S1.roundOver
                  THEN respawnCall(S1, "teleportRespawn", p, TELEPORT_RESPAWN_DELAY,
                                   "teleportPickups")
                  ELSE S1,
                  Destroyed, TRUE)

skullHandler(S, p, item, found) ==
  IF ~item.active \/ S.roundOver THEN Handled(S, item, FALSE)
  ELSE LET S1 == skullOverlap(destroyPickup(S, "skullPickups", item), p)
       IN Handled(IF ~S1.roundOver
                  THEN respawnCall(S1, "skullRespawn", p, SKULL_RESPAWN_DELAY,
                                   "skullPickups")
                  ELSE S1,
                  Destroyed, TRUE)

OverlapGroups == PickupGroups \cup {"powerPickups"}

overlapCallback(group, S, p, item, found) ==
  CASE group = "energy" -> energyHandler(S, p, item, found)
    [] group = "rareEnergy" -> rareEnergyHandler(S, p, item, found)
    [] group = "hazards" -> hazardHandler(S, p, item, found)
    [] group = "behaviorPickups" -> behaviorHandler(S, p, item, found)
    [] group = "ropePickups" -> ropeHandler(S, p, item, found)
    [] group = "powerPickups" -> powerHandler(S, p, item, found)
    [] group = "teleportPickups" -> teleportHandler(S, p, item, found)
    [] group = "skullPickups" -> skullHandler(S, p, item, found)

\* Variant: the callback is called for every player whose body overlapped
\* the pickup when the step began.
RECURSIVE overlapStale(_, _, _, _, _)
overlapStale(C, ids, group, who, found) ==
  IF ids = <<>> THEN C
  ELSE LET p == Head(ids)
           C1 == IF p \in who
                 THEN LET r == overlapCallback(group, C.S, p, C.item, found)
                      IN [S |-> r.S, item |-> r.item,
                          paid |-> IF r.paid THEN C.paid \cup {p} ELSE C.paid]
                 ELSE C
       IN overlapStale(C1, Tail(ids), group, who, found)

\* One pickup in one physics step of the overlap collider, players in
\* binding order: the engine tests each player against the bodies that are
\* enabled and in the group at that moment, so a pickup destroyed by an
\* earlier callback of the step is not handed to a later one.  C.paid
\* collects the players whose callback went as far as its payload.
RECURSIVE overlap(_, _, _, _, _)
overlap(C, ids, group, who, found) ==
  IF ids = <<>> THEN C
  ELSE LET p == Head(ids)
           C1 == IF p \in who /\ C.item.active
                 THEN LET r == overlapCallback(group, C.S, p, C.item, found)
                      IN [S |-> r.S, item |-> r.item,
                          paid |-> IF r.paid THEN C.paid \cup {p} ELSE C.paid]
                 ELSE C
       IN overlap(C1, Tail(ids), group, who, found)

\* ------------------------------------------------------------------------
\* Specification of the pickup groups: physics steps, frames, intermission
\* ------------------------------------------------------------------------
PickupSteps == {6000}
PickupSettings == {MkSettings("classic", ShallowThreshold, DefaultTagGoal, 0, DefaultDamage)}

\* How many members of the group are active.
Live(S, group) == IF group = "powerPickups" THEN S.powerPickups ELSE S.pickups[group]

\* C is the result of the step's callbacks.
NoteStep(C, group, who) ==
  [C.S EXCEPT !.step = [@ EXCEPT !.group = group, !.who = who, !.takers = C.paid]]

ItemEffects(group) == IF group = "behaviorPickups" THEN BehaviorEffects ELSE {"none"}

\* The groups whose spawners stop at a limit.
CappedGroups == {"ropePickups", "powerPickups", "teleportPickups", "skullPickups"}

\* The first player overlaps the pickup, alone or with the other player.
Overlappers == {who \in SUBSET PlayerIds : KeyHolders \subseteq who}

\* The scene after a physics step in which the players of who overlap one
\* active pickup of the group.
physicsStep(S, group, who, found, effect) ==
  NoteStep(overlap([S |-> S, item |-> [active |-> TRUE, effect |-> effect],
                    paid |-> {}],
                   PlayerOrder, group, who, found),
           group, who)

\* One pickup of a group of Groups is overlapped in a physics step.
StepOn(Groups) ==
  \E group \in Groups, who \in Overlappers, found \in {0, 1} :
    \E effect \in ItemEffects(group) :
      /\ Live(Scene, group) > 0
      /\ Commit(physicsStep(Scene, group, who, found, effect))
      /\ UNCHANGED spawnVars

PickupFrame ==
  \E d \in PickupSteps, found \in BOOLEAN :
    /\ now + d <= MaxPickupNow
    /\ Commit(runFrame(Scene, d, NoKeys, NoOverlaps, HOOK_RANGE + 1,
                       [p \in PlayerIds |-> 0], found))
    /\ UNCHANGED spawnVars

InitPickups ==
  /\ \E s \in PickupSettings : Start(create(NewScene, s))
  /\ arena = NoArena
  /\ spawn = NoSpawn

CappedStep == StepOn(CappedGroups)

NextPickups ==
  \/ CappedStep
  \/ PickupFrame
  \/ Acknowledge

SpecPickups == InitPickups /\ [][NextPickups]_vars

\* The respawn callbacks pending for a group.
RespawnKind(group) ==
  CASE group = "ropePickups" -> "ropeRespawn"
    [] group = "powerPickups" -> "powerRespawn"
    [] group = "teleportPickups" -> "teleportRespawn"
    [] group = "skullPickups" -> "skullRespawn"
    [] OTHER -> "none"

Pending(calls, group) == Cardinality({c \in calls : c.kind = RespawnKind(group)})

\* C39: at most ROPE_PICKUP_LIMIT rope pickups and at most two power,
\* teleport and skull pickups each are active, whatever was taken and
\* whichever respawn callbacks have fired; the active pickups and pending
\* respawns of a group together stay within its limit too.
C39_PickupLimits ==
  /\ pickups["ropePickups"] + Pending(delayedCalls, "ropePickups") <= ROPE_PICKUP_LIMIT
  /\ powerPickups + Pending(delayedCalls, "powerPickups") <= POWER_PICKUP_LIMIT
  /\ pickups["teleportPickups"] + Pending(delayedCalls, "teleportPickups")
       <= TELEPORT_PICKUP_LIMIT
  /\ pickups["skullPickups"] + Pending(delayedCalls, "skullPickups") <= SKULL_PICKUP_LIMIT
  /\ \A g \in PickupGroups : pickups[g] >= 0
  /\ powerPickups >= 0

\* Both players took a power pickup, both respawn callbacks fired, and the
\* group is full again; a teleport pickup is missing and due back.
C39_Witness ==
  /\ \A p \in PlayerIds : players[p].carriedPower # "none"
  /\ powerPickups = POWER_PICKUP_LIMIT
  /\ Pending(delayedCalls, "powerPickups") = 0
  /\ pickups["teleportPickups"] < TELEPORT_PICKUP_LIMIT
  /\ Pending(delayedCalls, "teleportPickups") > 0

\* ------------------------------------------------------------------------
\* Specification of the overlap callbacks: one pickup, one or two players
\* ------------------------------------------------------------------------
OverlapSettings ==
  {[MkSettings(m, ShallowThreshold, DefaultTagGoal, 0, DefaultDamage)
      EXCEPT !.energyCount = 1, !.behaviorPickupCount = 1, !.hazardCount = 1] :
   m \in {"classic", "pursuit"}}

InitOverlap ==
  /\ \E s \in OverlapSettings : Start(create(NewScene, s))
  /\ arena = NoArena
  /\ spawn = NoSpawn

\* The physics steps of a round that touch a pickup are counted.
CountStep(S0, S1) == [S1 EXCEPT !.step.n = S0.step.n + 1]

PhysicsStep ==
  \E group \in OverlapGroups, who \in Overlappers, found \in {0, 1} :
    \E effect \in ItemEffects(group) :
      /\ Live(Scene, group) > 0
      /\ step.n < MaxOverlapSteps
      /\ Commit(CountStep(Scene, physicsStep(Scene, group, who, found, effect)))
      /\ UNCHANGED spawnVars

NextOverlap ==
  \/ PhysicsStep
  \/ Acknowledge

SpecOverlap == InitOverlap /\ [][NextOverlap]_vars

\* The groups whose callback can change the other player too: a hazard or
\* skull can give the opponent the win, a disrupt pickup slows the opponent.
SharedGroups == {"hazards", "behaviorPickups", "skullPickups"}

====
